---- MODULE Spec2Model ----
(***************************************************************************)
(* Reconciliation core of the route controller                             *)
(* (pkg/controller/nativeResourceWorker.go, pkg/controller/                *)
(* resourceConfig.go): the work loop, the grouping and admission of        *)
(* routes, the synthesis of virtual server configurations and the two-tier *)
(* extended-spec map.                                                      *)
(*                                                                         *)
(* Strings that the code concatenates, compares or takes prefixes of       *)
(* (hosts, paths, virtual-server names, monitor paths) are sequences of    *)
(* one-character strings, so that host+path, strings.HasPrefix, the        *)
(* byte-wise order of Go strings and AS3NameFormatter are computed and not *)
(* assumed.  Identifiers that the code only compares for equality (route   *)
(* names, namespaces, partitions, service names) are TLA+ strings.         *)
(***************************************************************************)
EXTENDS Integers, Sequences, FiniteSets, TLC

\* the nil pointer to a spec; every spec record carries nil |-> FALSE
NilSpec == [nil |-> TRUE]

(***************************************************************************)
(* Strings                                                                 *)
(***************************************************************************)
\* the byte value of a character (Go compares strings byte-wise)
CharCode(c) ==
  CASE c = "%" -> 37 [] c = "*" -> 42 [] c = "-" -> 45 [] c = "." -> 46
    [] c = "/" -> 47 [] c = ":" -> 58 [] c = "=" -> 61 [] c = "_" -> 95
    [] c = "a" -> 97 [] c = "b" -> 98 [] c = "g" -> 103 [] c = "h" -> 104
    [] c = "w" -> 119 [] c = "x" -> 120 [] c = "y" -> 121 [] c = "1" -> 49
    [] c = "2" -> 50

\* s < t for Go strings
RECURSIVE StrLess(_, _)
StrLess(s, t) ==
  IF t = <<>> THEN FALSE
  ELSE IF s = <<>> THEN TRUE
  ELSE IF s[1] = t[1] THEN StrLess(Tail(s), Tail(t))
  ELSE CharCode(s[1]) < CharCode(t[1])

\* strings.HasPrefix(s, prefix)
HasPrefix(s, prefix) ==
  /\ Len(prefix) <= Len(s)
  /\ SubSeq(s, 1, Len(prefix)) = prefix

AS3NameFormatter(name) ==
  [i \in 1..Len(name) |->
     IF name[i] \in {".", ":", "/", "-", "="} THEN "_"
     ELSE IF name[i] = "%" THEN "."
     ELSE name[i]]

(***************************************************************************)
(* Routes (routeapi.Route as the controller reads it)                      *)
(*   tls       "" when Spec.TLS is nil, else the termination               *)
(*   insecure  Spec.TLS.InsecureEdgeTerminationPolicy                      *)
(*   to        Spec.To.Name, the backend service                           *)
(*   cert      the inline certificate and key: "" absent, "valid" when     *)
(*             checkCertificateHost accepts them for the host, "invalid"   *)
(*   destCA    Spec.TLS.DestinationCACertificate is set                    *)
(*   rewrite   the rewrite annotation: "" absent, "ok" accepted and "bad"  *)
(*             refused by getRewriteActions                                *)
(***************************************************************************)
isSecureRoute(route) == route.tls # ""

isPassthroughRoute(route) == route.tls = "passthrough"

\* the host-path claim key of a route
HostPathKey(route) ==
  IF route.path = <<"/">> \/ Len(route.path) = 0
  THEN route.host \o <<"/">>
  ELSE route.host \o route.path

\* mutant: the empty path and the root path are compared as strings
RouteLessByPath(ri, rj) ==
  \/ StrLess(ri.host, rj.host)
  \/ (ri.host = rj.host /\ ri.path = rj.path /\ ri.ts < rj.ts)
  \/ (ri.host = rj.host /\ StrLess(ri.path, rj.path))

\* the less function of the sort in getOrderedRoutes
RouteLess(ri, rj) ==
  IF /\ ri.host = rj.host
     /\ (Len(ri.path) = 0 \/ Len(rj.path) = 0)
     /\ (ri.path = <<"/">> \/ rj.path = <<"/">>)
  THEN ri.ts < rj.ts
  ELSE \/ StrLess(ri.host, rj.host)
       \/ (ri.host = rj.host /\ ri.path = rj.path /\ ri.ts < rj.ts)
       \/ (ri.host = rj.host /\ StrLess(ri.path, rj.path))

\* one pass of the insertion sort that sort.Slice runs on a short slice:
\* x moves left while it is less than its left neighbour
RECURSIVE InsertSorted(_, _)
InsertSorted(s, x) ==
  IF s = <<>> THEN <<x>>
  ELSE IF RouteLess(x, s[Len(s)])
       THEN Append(InsertSorted(SubSeq(s, 1, Len(s) - 1), x), s[Len(s)])
       ELSE Append(s, x)

RECURSIVE SortRoutes(_)
SortRoutes(s) ==
  IF s = <<>> THEN <<>>
  ELSE InsertSorted(SortRoutes(SubSeq(s, 1, Len(s) - 1)), s[Len(s)])

\* getOrderedRoutes: the routes of the namespace as the informer's index
\* lists them (listing: an arbitrary order of the cache), sorted
getOrderedRoutes(listing, namespace) ==
  SortRoutes(SelectSeq(listing, LAMBDA r : r.ns = namespace))

(***************************************************************************)
(* Go maps as functions whose domain is the set of keys present            *)
(***************************************************************************)
EmptyMap == <<>>

MapPut(m, k, v) == [x \in DOMAIN m \cup {k} |-> IF x = k THEN v ELSE m[x]]

MapRemove(m, ks) == [x \in DOMAIN m \ ks |-> m[x]]

(***************************************************************************)
(* Backend services known to the service informer: (namespace, name).      *)
(* Every service exposes the one port ServicePort.                         *)
(***************************************************************************)
svcIndexer == {<<"ns1", "svc1">>, <<"ns1", "svc2">>, <<"ns2", "svc1">>}

ServicePort == 8080

\* getServicePort: the error (TRUE when the backend cannot be resolved)
getServicePortErr(route) == <<route.ns, route.to>> \notin svcIndexer

(***************************************************************************)
(* Host-path claims (processedHostPathMap: claim key -> creation time)     *)
(***************************************************************************)
NoTLS == [reference |-> "", clientSSL |-> "", serverSSL |-> ""]

\* checkValidRoute: "ok" or the reason of the rejection; "panic" when the
\* code dereferences the absent TLS block of the route
checkValidRoute(route, extdSpec, hp) ==
  LET key == HostPathKey(route)
      svc == IF getServicePortErr(route) THEN "ServiceNotFound" ELSE "ok"
  IN  IF key \in DOMAIN hp /\ hp[key] < route.ts
      THEN "HostAlreadyClaimed"
      ELSE IF ~extdSpec.nil /\ extdSpec.tls # NoTLS /\ extdSpec.tls.reference = "bigip"
                /\ route.tls = ""
      THEN "panic"
      ELSE IF ~extdSpec.nil /\ extdSpec.tls # NoTLS /\ extdSpec.tls.reference = "bigip"
                /\ route.tls # "passthrough"
      THEN IF extdSpec.tls.clientSSL = ""
           THEN "ExtendedValidationFailed"
           ELSE IF extdSpec.tls.serverSSL = "" /\ route.tls = "reencrypt"
           THEN "ExtendedValidationFailed"
           ELSE svc
      ELSE IF route.tls # "" /\ route.tls # "passthrough"
      THEN IF route.cert # "valid" THEN "ExtendedValidationFailed" ELSE svc
      ELSE svc

\* mutant: the claim under the old key of the route is kept
updateHostPathMapKeeping(hp, timestamp, key) ==
  MapPut(hp, key, timestamp)

\* updateHostPathMap: entries of the same timestamp under another key are
\* evicted, then the claim is recorded
updateHostPathMap(hp, timestamp, key) ==
  MapPut(MapRemove(hp, {k \in DOMAIN hp : hp[k] = timestamp /\ k # key}),
         key, timestamp)

\* deleteHostPathMapEntry
deleteHostPathMapEntry(hp, route) ==
  MapRemove(hp, {k \in DOMAIN hp : hp[k] = route.ts /\ k = HostPathKey(route)})

\* mutant: a rejected route stays among the routes of the group
RECURSIVE GroupNamespaceRoutesKeepingRejected(_, _, _)
GroupNamespaceRoutesKeepingRejected(ordered, extdSpec, acc) ==
  IF ordered = <<>> \/ acc.panic THEN acc
  ELSE LET route == Head(ordered)
           reason == checkValidRoute(route, extdSpec, acc.hp)
       IN  GroupNamespaceRoutesKeepingRejected(Tail(ordered), extdSpec,
             IF reason = "ok"
             THEN [acc EXCEPT !.hp = updateHostPathMap(@, route.ts, HostPathKey(route)),
                              !.routes = Append(@, route)]
             ELSE IF reason = "panic"
             THEN [acc EXCEPT !.panic = TRUE]
             ELSE [acc EXCEPT !.routes = Append(@, route),
                              !.rejected =
                     Append(@, [name |-> route.name, reason |-> reason])])

\* the loop of getGroupedRoutes over the ordered routes of one namespace;
\* acc = [hp, routes, rejected, panic]
RECURSIVE GroupNamespaceRoutes(_, _, _)
GroupNamespaceRoutes(ordered, extdSpec, acc) ==
  IF ordered = <<>> \/ acc.panic THEN acc
  ELSE LET route == Head(ordered)
           reason == checkValidRoute(route, extdSpec, acc.hp)
       IN  GroupNamespaceRoutes(Tail(ordered), extdSpec,
             IF reason = "ok"
             THEN [acc EXCEPT !.hp = updateHostPathMap(@, route.ts, HostPathKey(route)),
                              !.routes = Append(@, route)]
             ELSE IF reason = "panic"
             THEN [acc EXCEPT !.panic = TRUE]
             ELSE [acc EXCEPT !.rejected =
                     Append(@, [name |-> route.name, reason |-> reason])])

\* getGroupedRoutes: the accepted routes of the group's namespaces, in
\* order, with the claim map they leave and the rejections whose status is
\* written back
RECURSIVE GroupNamespaces(_, _, _, _)
GroupNamespaces(namespaces, listing, extdSpec, acc) ==
  IF namespaces = <<>> THEN acc
  ELSE GroupNamespaces(Tail(namespaces), listing, extdSpec,
         GroupNamespaceRoutes(getOrderedRoutes(listing, Head(namespaces)), extdSpec, acc))

getGroupedRoutes(namespaces, listing, extdSpec, hp) ==
  GroupNamespaces(namespaces, listing, extdSpec,
                  [hp |-> hp, routes |-> <<>>, rejected |-> <<>>, panic |-> FALSE])

(***************************************************************************)
(* Names                                                                   *)
(***************************************************************************)
DEFAULT_HTTP_PORT == 80

DEFAULT_HTTPS_PORT == 443

HTTP == [protocol |-> "http", port |-> DEFAULT_HTTP_PORT]

HTTPS == [protocol |-> "https", port |-> DEFAULT_HTTPS_PORT]

getBasicVirtualPorts == <<HTTP, HTTPS>>

\* fmt.Sprintf("%s_%d", AS3NameFormatter(name), port), kept as the pair
formatCustomVirtualServerName(name, port) == <<AS3NameFormatter(name), port>>

frameRouteVSName(vServerName, vServerAddr, portStruct) ==
  IF vServerName # <<>>
  THEN formatCustomVirtualServerName(vServerName, portStruct.port)
  ELSE formatCustomVirtualServerName(
         <<"r", "o", "u", "t", "e", "s", "_">> \o vServerAddr, portStruct.port)

\* AS3NameFormatter(svc_port_namespace), kept as the triple
formatPoolName(namespace, svc, port) == <<svc, port, namespace>>

\* the host group (the route's namespace) is never empty, so the policy is
\* named after the virtual server and the namespace
formatPolicyName(hostname, hostGroup, name) == <<name, hostGroup, "policy">>

\* the rule name is a function of the four values it is formatted from
formatVirtualServerRuleName(hostname, hostGroup, path, pool) ==
  <<"vs", hostname, hostGroup, path, pool>>

getRSCfgResName(rsVSName, resName) == <<rsVSName, resName>>

(***************************************************************************)
(* Rules and policies                                                      *)
(***************************************************************************)
\* createRule: match on host and path, forward to the pool
createRule(uri, host, poolName, ruleName) ==
  [name |-> ruleName, ordinal |-> 0, fullURI |-> uri, hostValues |-> <<host>>,
   pool |-> poolName, rewrite |-> FALSE]

\* the closure sortrules of prepareRouteLTMRules: number the rules from
\* ordinal on
NumberRules(rls, ordinal) ==
  [i \in 1..Len(rls) |-> [rls[i] EXCEPT !.ordinal = ordinal + i - 1]]

\* sort.Sort(rules): insertion sort by ordinal
RECURSIVE InsertRule(_, _)
InsertRule(s, x) ==
  IF s = <<>> THEN <<x>>
  ELSE IF x.ordinal < s[Len(s)].ordinal
       THEN Append(InsertRule(SubSeq(s, 1, Len(s) - 1), x), s[Len(s)])
       ELSE Append(s, x)

RECURSIVE SortRules(_)
SortRules(s) ==
  IF s = <<>> THEN <<>>
  ELSE InsertRule(SortRules(SubSeq(s, 1, Len(s) - 1)), s[Len(s)])

\* prepareRouteLTMRules: the rules of one route, <<>> for the nil it
\* returns on an error
prepareRouteLTMRules(route, poolName) ==
  LET uri == route.host \o route.path
      ruleName == formatVirtualServerRuleName(route.host, route.ns, route.path, poolName)
      rl0 == createRule(uri, route.host, poolName, ruleName)
      rl == IF route.rewrite = "ok" THEN [rl0 EXCEPT !.rewrite = TRUE] ELSE rl0
      isWildcard == HasPrefix(uri, <<"*", ".">>)
      rlMap == IF isWildcard THEN <<>> ELSE <<rl>>
      wildcards == IF isWildcard THEN <<rl>> ELSE <<>>
      rls == NumberRules(rlMap, 0)
      w == NumberRules(wildcards, Len(rlMap))
  IN  IF route.rewrite = "bad" THEN <<>> ELSE SortRules(rls \o w)

\* mergeRules: the policy's rules after the host values of the new rules
\* whose name exists were merged into them, and the rules that are new
RECURSIVE mergeRules(_, _, _)
mergeRules(polRules, rls, newRules) ==
  IF rls = <<>> THEN [rules |-> polRules, newRules |-> newRules]
  ELSE LET newRule == Head(rls)
           found == {i \in 1..Len(polRules) : polRules[i].name = newRule.name}
       IN  IF found # {}
           THEN \* the map of existing rules keeps the last rule of a name
                LET i == CHOOSE j \in found : \A k \in found : k <= j
                IN  mergeRules([polRules EXCEPT ![i].hostValues =
                                  Append(@, newRule.hostValues[1])],
                               Tail(rls), newRules)
           ELSE mergeRules(polRules, Tail(rls), Append(newRules, newRule))

\* AddRules
AddRules(pol, rls) ==
  LET m == mergeRules(pol.rules, rls, <<>>)
  IN  [pol EXCEPT !.rules = SortRules(m.rules \o m.newRules)]

\* createPolicy: a forward policy holding the rules
createPolicy(rls, policyName, partition) ==
  AddRules([name |-> policyName, partition |-> partition, rules |-> <<>>], rls)

\* SetPolicy on the list of policies
SetPolicy(policies, policy) ==
  LET at == {i \in 1..Len(policies) :
               policies[i].name = policy.name /\ policies[i].partition = policy.partition}
  IN  IF at # {}
      THEN [policies EXCEPT ![CHOOSE i \in at : \A k \in at : i <= k] = policy]
      ELSE Append(policies, policy)

\* AddRuleToPolicy: every policy built here is a forward policy, so
\* FindPolicy finds the first one
AddRuleToPolicy(rsCfg, policyName, partition, rules) ==
  IF rsCfg.policies # <<>>
  THEN [rsCfg EXCEPT !.policies = SetPolicy(@, AddRules(rsCfg.policies[1], rules))]
  ELSE [rsCfg EXCEPT !.policies = SetPolicy(@, createPolicy(rules, policyName, partition))]

(***************************************************************************)
(* ResourceConfig: one virtual server configuration                        *)
(*   monitors       [name, path, type, inUse]                              *)
(*   pools          [name, serviceName, serviceNamespace, monitorNames]    *)
(*   policies       [name, partition, rules]                               *)
(*   baseResources  the provenance set, (namespace, name) of the routes    *)
(*   intDgMap       internal datagroup name -> set of (namespace, record)  *)
(*   iRulesMap      the names of the iRules created for the virtual        *)
(*   iRules         Virtual.IRules, the iRules attached in order           *)
(*   customProfiles the profiles synthesized from route certificates       *)
(* Pool members come from the endpoints of the services, which are outside *)
(* this model.                                                             *)
(***************************************************************************)
DEFAULT_SNAT == "auto"

NewResourceConfig(partition, rsName, portStruct, extdSpec) ==
  [partition |-> partition, name |-> rsName, protocol |-> portStruct.protocol,
   bindAddr |-> extdSpec.vserverAddr, port |-> portStruct.port,
   snat |-> "", iRules |-> <<>>, monitors |-> <<>>, pools |-> <<>>,
   policies |-> <<>>, hosts |-> <<>>, baseResources |-> {},
   intDgMap |-> EmptyMap, iRulesMap |-> {}, customProfiles |-> {}]

\* handleRouteGroupExtendedSpec
handleRouteGroupExtendedSpec(rsCfg, extdSpec) ==
  [rsCfg EXCEPT
     !.snat = IF extdSpec.snat = "" THEN DEFAULT_SNAT ELSE extdSpec.snat,
     !.monitors = @ \o
        [i \in 1..Len(extdSpec.healthMonitors) |->
           [name |-> <<AS3NameFormatter(extdSpec.healthMonitors[i].path), "monitor">>,
            path |-> extdSpec.healthMonitors[i].path,
            type |-> IF extdSpec.healthMonitors[i].type = ""
                     THEN "http" ELSE extdSpec.healthMonitors[i].type,
            inUse |-> FALSE]]]

\* mutant: the index also advances after a removal, so the monitor that
\* follows a removed one is never looked at
RECURSIVE SkipAfterRemoval(_, _)
SkipAfterRemoval(monitors, i) ==
  IF i > Len(monitors) THEN monitors
  ELSE IF ~monitors[i].inUse
  THEN SkipAfterRemoval(SubSeq(monitors, 1, i - 1) \o SubSeq(monitors, i + 1, Len(monitors)),
                        i + 1)
  ELSE SkipAfterRemoval(monitors, i + 1)

removeUnusedHealthMonitorsSkipping(rsCfg) ==
  [rsCfg EXCEPT !.monitors = SkipAfterRemoval(@, 1)]

\* removeUnusedHealthMonitors
removeUnusedHealthMonitors(rsCfg) ==
  [rsCfg EXCEPT !.monitors = SelectSeq(@, LAMBDA m : m.inUse)]

\* prepareResourceConfigFromRoute: [cfg, err]
prepareResourceConfigFromRoute(rsCfg, route, portStruct) ==
  IF /\ portStruct.protocol = "http"
     /\ route.tls # ""
     /\ route.insecure \in {"", "None"}
  THEN [cfg |-> rsCfg, err |-> FALSE]
  ELSE
    LET poolName == formatPoolName(route.ns, route.to, ServicePort)
        matching == {i \in 1..Len(rsCfg.monitors) :
                       HasPrefix(rsCfg.monitors[i].path, route.host \o route.path)}
        first == CHOOSE i \in matching : \A k \in matching : i <= k
        pool == [name |-> poolName, serviceName |-> route.to,
                 serviceNamespace |-> route.ns,
                 monitorNames |-> IF matching = {} THEN <<>>
                                  ELSE <<rsCfg.monitors[first].name>>]
        withPool == [rsCfg EXCEPT
                       !.hosts = Append(@, route.host),
                       !.monitors = IF matching = {} THEN @
                                    ELSE [@ EXCEPT ![first].inUse = TRUE],
                       !.pools = Append(@, pool)]
        rules == prepareRouteLTMRules(route, poolName)
    IN  IF isPassthroughRoute(route)
        THEN [cfg |-> withPool, err |-> FALSE]
        ELSE IF rules = <<>>
        THEN [cfg |-> withPool, err |-> TRUE]
        ELSE [cfg |-> AddRuleToPolicy(withPool,
                        formatPolicyName(route.host, route.ns, rsCfg.name),
                        rsCfg.partition, rules),
              err |-> FALSE]

(***************************************************************************)
(* TLS                                                                     *)
(***************************************************************************)
TrimSlash(str) ==
  IF str # <<>> /\ str[Len(str)] = "/" THEN SubSeq(str, 1, Len(str) - 1) ELSE str

\* updateDataGroup: the record of that namespace and name is added or
\* replaced; the datagroup is created when it is missing
updateDataGroup(intDgMap, dgName, namespace, recName, data) ==
  LET old == IF dgName \in DOMAIN intDgMap THEN intDgMap[dgName] ELSE {}
  IN  MapPut(intDgMap, dgName,
             {r \in old : ~(r[1] = namespace /\ r[2] = recName)}
               \cup {<<namespace, recName, data>>})

\* a fold of updateDataGroup over the pool path references
RECURSIVE updateDataGroupRefs(_, _, _, _, _, _)
updateDataGroupRefs(intDgMap, refs, dgName, hostname, namespace, fixed) ==
  IF refs = <<>> THEN intDgMap
  ELSE updateDataGroupRefs(
         updateDataGroup(intDgMap, dgName, namespace,
                         TrimSlash(hostname \o Head(refs).path),
                         IF fixed = "" THEN Head(refs).poolName ELSE fixed),
         Tail(refs), dgName, hostname, namespace, fixed)

addInternalDataGroup(intDgMap, dgName) ==
  IF dgName \in DOMAIN intDgMap THEN intDgMap ELSE MapPut(intDgMap, dgName, {})

\* Virtual.AddIRule
AddIRule(iRules, ruleName) ==
  IF \E i \in 1..Len(iRules) : iRules[i] = ruleName THEN iRules ELSE Append(iRules, ruleName)

\* handleDataGroupIRules for edge and reencrypt
handleDataGroupIRules(rsCfg, vsHost, termination) ==
  LET tlsIRule == getRSCfgResName(rsCfg.name, "tls_irule")
      hostsDg == IF termination = "edge" THEN "ssl_edge_servername_dg"
                 ELSE "ssl_reencrypt_servername_dg"
      sslDg == IF termination = "edge" THEN "ssl_edge_serverssl_dg"
               ELSE "ssl_reencrypt_serverssl_dg"
  IN  [rsCfg EXCEPT
         !.iRulesMap = @ \cup {tlsIRule},
         !.intDgMap = addInternalDataGroup(
                        addInternalDataGroup(@, getRSCfgResName(rsCfg.name, hostsDg)),
                        getRSCfgResName(rsCfg.name, sslDg)),
         !.iRules = IF vsHost # <<>> THEN AddIRule(@, tlsIRule) ELSE @]

\* the secrets handleTLS can resolve: SSLContext, the secrets fetched
\* before, and those of the cluster; a secret is "ok", or "bad" when no
\* profile can be made from it
NoSecrets == [sslContext |-> EmptyMap, cluster |-> EmptyMap]

\* the profile made from the secret is bound
SecretBound(rsCfg, ctx, sslContext, name, context) ==
  IF sslContext[name] = "bad"
  THEN [cfg |-> rsCfg, ok |-> FALSE, sslContext |-> sslContext]
  ELSE [cfg |-> [rsCfg EXCEPT !.customProfiles = @ \cup {<<ctx.namespace, name, context>>}],
        ok |-> TRUE, sslContext |-> sslContext]

\* one profile stored as a secret: taken from SSLContext, or fetched from
\* the cluster and saved in SSLContext
SecretProfile(rsCfg, ctx, secrets, name, context) ==
  IF name = "" THEN [cfg |-> rsCfg, ok |-> TRUE, sslContext |-> secrets.sslContext]
  ELSE IF name \in DOMAIN secrets.sslContext
  THEN SecretBound(rsCfg, ctx, secrets.sslContext, name, context)
  ELSE IF name \notin DOMAIN secrets.cluster
  THEN [cfg |-> rsCfg, ok |-> FALSE, sslContext |-> secrets.sslContext]
  ELSE SecretBound(rsCfg, ctx, MapPut(secrets.sslContext, name, secrets.cluster[name]),
                   name, context)

\* the server profile of the Secret case, after the client profile c
SecretServerProfile(c, ctx, secrets) ==
  IF ~c.ok THEN c
  ELSE SecretProfile(c.cfg, ctx, [secrets EXCEPT !.sslContext = c.sslContext],
                     ctx.serverSSL, "serverside")

\* the switch of handleTLS on the reference type: [cfg, ok, sslContext]
ProcessProfile(rsCfg, ctx, secrets) ==
  CASE ctx.referenceType = "bigip" ->
         [cfg |-> [rsCfg EXCEPT !.customProfiles = @
                     \cup (IF ctx.clientSSL # "" THEN {<<ctx.clientSSL, "clientside">>} ELSE {})
                     \cup (IF ctx.serverSSL # "" THEN {<<ctx.serverSSL, "serverside">>} ELSE {})],
          ok |-> TRUE, sslContext |-> secrets.sslContext]
    [] ctx.referenceType = "secret" ->
         SecretServerProfile(SecretProfile(rsCfg, ctx, secrets, ctx.clientSSL, "clientside"),
                             ctx, secrets)
    [] ctx.referenceType = "certificate" ->
         [cfg |-> [rsCfg EXCEPT !.customProfiles = @
                     \cup (IF ctx.hasKeyCert
                           THEN {<<ctx.namespace, ctx.name, "clientside">>} ELSE {})
                     \cup (IF ctx.destCA
                           THEN {<<ctx.namespace, ctx.name, "serverside">>} ELSE {})],
          ok |-> TRUE, sslContext |-> secrets.sslContext]
    [] OTHER -> [cfg |-> rsCfg, ok |-> FALSE, sslContext |-> secrets.sslContext]

\* handleTLS on the HTTPS virtual server once the profiles are processed
\* into c1
ProfilesProcessed(rsCfg, ctx, c1, sslContext) ==
  LET sslDg == IF ctx.termination = "edge"
               THEN updateDataGroupRefs(c1.intDgMap, ctx.poolPathRefs,
                      getRSCfgResName(rsCfg.name, "ssl_edge_serverssl_dg"),
                      ctx.hostname, ctx.namespace, "false")
               ELSE IF ctx.termination = "reencrypt" /\ ctx.serverSSL # ""
               THEN updateDataGroupRefs(c1.intDgMap, ctx.poolPathRefs,
                      getRSCfgResName(rsCfg.name, "ssl_reencrypt_serverssl_dg"),
                      ctx.hostname, ctx.namespace, "tls_client")
               ELSE c1.intDgMap
      hostsDg == updateDataGroupRefs(sslDg, ctx.poolPathRefs,
                   getRSCfgResName(rsCfg.name,
                     IF ctx.termination = "edge" THEN "ssl_edge_servername_dg"
                     ELSE "ssl_reencrypt_servername_dg"),
                   ctx.hostname, ctx.namespace, "")
      c2 == [c1 EXCEPT !.intDgMap = sslDg]
  IN  IF ctx.termination = "reencrypt" /\ ctx.httpTraffic = "allow"
      THEN [cfg |-> c2, ok |-> FALSE, sslContext |-> sslContext]
      ELSE IF ctx.termination \in {"edge", "reencrypt"}
      THEN [cfg |-> handleDataGroupIRules([c1 EXCEPT !.intDgMap = hostsDg],
                                          ctx.hostname, ctx.termination),
            ok |-> TRUE, sslContext |-> sslContext]
      ELSE [cfg |-> c2, ok |-> TRUE, sslContext |-> sslContext]

\* the rest of handleTLS on the HTTPS virtual server; p is the result of
\* the switch on the reference type
ProfileReturned(rsCfg, ctx, p) ==
  IF ~p.ok THEN p ELSE ProfilesProcessed(rsCfg, ctx, p.cfg, p.sslContext)

\* handleTLS: [cfg, ok, sslContext]
handleTLS(rsCfg, ctx, secrets) ==
  IF rsCfg.port = ctx.httpsPort
  THEN
    IF ctx.termination = "passthrough"
    THEN [cfg |-> rsCfg, ok |-> TRUE, sslContext |-> secrets.sslContext]
    ELSE ProfileReturned(rsCfg, ctx, ProcessProfile(rsCfg, ctx, secrets))
  ELSE
    IF ctx.httpTraffic = "redirect"
    THEN LET ruleName ==
               <<getRSCfgResName(rsCfg.name,
                   IF ctx.hostname = <<>> THEN "http_redirect_irule_nohost"
                   ELSE "http_redirect_irule"),
                 ctx.httpsPort>>
         IN  [cfg |-> [rsCfg EXCEPT
                         !.iRulesMap = @ \cup {ruleName},
                         !.iRules = AddIRule(@, ruleName),
                         !.intDgMap = updateDataGroupRefs(@, ctx.poolPathRefs,
                                        getRSCfgResName(rsCfg.name, "https_redirect_dg"),
                                        ctx.hostname, ctx.namespace, "")],
              ok |-> TRUE, sslContext |-> secrets.sslContext]
    ELSE [cfg |-> rsCfg, ok |-> TRUE, sslContext |-> secrets.sslContext]

\* mutant: the policy is compared as it is spelled in the route
ToLowerCaseSensitive(policy) == policy

\* strings.ToLower of the insecure policy
ToLower(policy) ==
  CASE policy = "Allow" -> "allow" [] policy = "None" -> "none"
    [] policy = "Redirect" -> "redirect" [] OTHER -> policy

\* handleRouteTLS: [cfg, ok]; ok is FALSE for a route without TLS block.
\* The reference is Certificate, for which handleTLS reads no secret
handleRouteTLS(rsCfg, route, extdSpec) ==
  IF route.tls = "" THEN [cfg |-> rsCfg, ok |-> FALSE, sslContext |-> EmptyMap]
  ELSE
    LET poolName == formatPoolName(route.ns, route.to, ServicePort)
        mine == SelectSeq(rsCfg.pools, LAMBDA pl : pl.name = poolName)
    IN  handleTLS(rsCfg,
          [name |-> route.name, namespace |-> route.ns,
           referenceType |-> "certificate", hostname |-> route.host,
           httpsPort |-> DEFAULT_HTTPS_PORT, ipAddress |-> extdSpec.vserverAddr,
           termination |-> route.tls, httpTraffic |-> ToLower(route.insecure),
           poolPathRefs |-> [i \in 1..Len(mine) |->
                               [path |-> route.path, poolName |-> poolName]],
           clientSSL |-> "", serverSSL |-> "",
           hasKeyCert |-> route.cert # "", destCA |-> route.destCA],
          NoSecrets)

(***************************************************************************)
(* ConfigStore (ltmConfig: partition -> name -> ResourceConfig)            *)
(***************************************************************************)
\* getPartitionResourceMap creates the partition's map when it is missing
getPartitionResourceMap(ltm, partition) ==
  IF partition \in DOMAIN ltm THEN ltm ELSE MapPut(ltm, partition, EmptyMap)

getVirtualServer(ltm, partition, rsName) ==
  partition \in DOMAIN ltm /\ rsName \in DOMAIN ltm[partition]

deleteVirtualServer(ltm, partition, rsName) ==
  LET l == getPartitionResourceMap(ltm, partition)
  IN  [l EXCEPT ![partition] = MapRemove(@, {rsName})]

(***************************************************************************)
(* The extended-spec map (extdSpecMap: route group -> extendedParsedSpec)  *)
(***************************************************************************)
\* mutant: a local spec is effective whether or not override is permitted
getExtendedRouteSpecIgnoreOverride(specMap, routeGroup) ==
  IF routeGroup \notin DOMAIN specMap
  THEN [spec |-> NilSpec, partition |-> ""]
  ELSE LET e == specMap[routeGroup]
       IN  IF ~e.local.nil
           THEN [spec |-> e.local, partition |-> e.partition]
           ELSE [spec |-> e.global, partition |-> e.partition]

\* getExtendedRouteSpec: the effective spec and the partition of the group
getExtendedRouteSpec(specMap, routeGroup) ==
  IF routeGroup \notin DOMAIN specMap
  THEN [spec |-> NilSpec, partition |-> ""]
  ELSE LET e == specMap[routeGroup]
       IN  IF e.override /\ ~e.local.nil
           THEN [spec |-> e.local, partition |-> e.partition]
           ELSE [spec |-> e.global, partition |-> e.partition]

(***************************************************************************)
(* processRoutes                                                           *)
(***************************************************************************)
\* mutant: only the first route is asked
doRoutesHandleHTTPFirst(routes) ==
  routes # <<>> /\ (~isSecureRoute(routes[1]) \/ routes[1].insecure \in {"Allow", "Redirect"})

\* doRoutesHandleHTTP
doRoutesHandleHTTP(routes) ==
  \E i \in 1..Len(routes) :
     \/ ~isSecureRoute(routes[i])
     \/ routes[i].insecure \in {"Allow", "Redirect"}

getVirtualPortsForRoutes(routes) ==
  IF \E i \in 1..Len(routes) : isSecureRoute(routes[i])
  THEN getBasicVirtualPorts
  ELSE <<HTTP>>

\* the loop of processRoutes over the routes for one virtual server:
\* [cfg, processed, err]
RECURSIVE BuildRoutes(_, _, _, _, _)

\* the rest of one iteration; t is the result of handleRouteTLS
RouteSecured(t, routes, portStruct, extdSpec, processed) ==
  IF ~t.ok THEN [cfg |-> t.cfg, processed |-> processed, err |-> TRUE]
  ELSE BuildRoutes(t.cfg, Tail(routes), portStruct, extdSpec,
                   processed \cup {<<Head(routes).ns, Head(routes).name>>})

\* the rest of one iteration; p is the result of
\* prepareResourceConfigFromRoute
RoutePrepared(p, routes, portStruct, extdSpec, processed) ==
  IF p.err THEN [cfg |-> p.cfg, processed |-> processed, err |-> TRUE]
  ELSE RouteSecured(IF isSecureRoute(Head(routes))
                    THEN handleRouteTLS(p.cfg, Head(routes), extdSpec)
                    ELSE [cfg |-> p.cfg, ok |-> TRUE],
                    routes, portStruct, extdSpec, processed)

BuildRoutes(rsCfg, routes, portStruct, extdSpec, processed) ==
  IF routes = <<>> THEN [cfg |-> rsCfg, processed |-> processed, err |-> FALSE]
  ELSE RoutePrepared(
         prepareResourceConfigFromRoute(
           [rsCfg EXCEPT !.baseResources =
              @ \cup {<<Head(routes).ns, Head(routes).name>>}],
           Head(routes), portStruct),
         routes, portStruct, extdSpec, processed)

\* the loop of processRoutes over the ports;
\* acc = [ltm, processed, vsMap, processingError]
RECURSIVE BuildPorts(_, _, _, _, _)

\* the rest of one iteration; b is the result of the loop over the routes
PortBuilt(b, rsName, portStructs, acc, routes, extdSpec, partition) ==
  IF b.err
  THEN [acc EXCEPT !.processed = b.processed, !.processingError = TRUE]
  ELSE BuildPorts(Tail(portStructs),
                  [acc EXCEPT !.processed = b.processed,
                              !.vsMap = MapPut(@, rsName, removeUnusedHealthMonitors(b.cfg))],
                  routes, extdSpec, partition)

\* one iteration for the virtual server name rsName
PortNamed(rsName, portStructs, acc, routes, extdSpec, partition) ==
  IF Head(portStructs).protocol = "http" /\ ~doRoutesHandleHTTP(routes)
  THEN BuildPorts(Tail(portStructs),
                  [acc EXCEPT !.ltm = deleteVirtualServer(@, partition, rsName)],
                  routes, extdSpec, partition)
  ELSE PortBuilt(BuildRoutes(
                   handleRouteGroupExtendedSpec(
                     NewResourceConfig(partition, rsName, Head(portStructs), extdSpec),
                     extdSpec),
                   routes, Head(portStructs), extdSpec, acc.processed),
                 rsName, portStructs, acc, routes, extdSpec, partition)

BuildPorts(portStructs, acc, routes, extdSpec, partition) ==
  IF portStructs = <<>> \/ acc.processingError THEN acc
  ELSE PortNamed(frameRouteVSName(extdSpec.vserverName, extdSpec.vserverAddr,
                                  Head(portStructs)),
                 portStructs, acc, routes, extdSpec, partition)

\* the teardown branch: every basic virtual of the group that exists is
\* deleted
RECURSIVE DeleteVirtuals(_, _, _, _)
DeleteVirtuals(ltm, portStructs, extdSpec, partition) ==
  IF portStructs = <<>> THEN ltm
  ELSE LET rsName == frameRouteVSName(extdSpec.vserverName, extdSpec.vserverAddr,
                                      Head(portStructs))
       IN  DeleteVirtuals(
             IF getVirtualServer(ltm, partition, rsName)
             THEN deleteVirtualServer(ltm, partition, rsName) ELSE ltm,
             Tail(portStructs), extdSpec, partition)

\* the commit of the temporary map
CommitVsMap(ltm, vsMap, partition) ==
  IF DOMAIN vsMap = {} THEN ltm
  ELSE LET l == getPartitionResourceMap(ltm, partition)
       IN  [l EXCEPT ![partition] =
              [n \in DOMAIN @ \cup DOMAIN vsMap |->
                 IF n \in DOMAIN vsMap THEN vsMap[n] ELSE @[n]]]

\* processRoutes on the store st = [ltm, hp, processed, panic].  The result
\* adds what the call did: err (the error returned), processingError,
\* routes (the routes grouped), rejected, committed (the names of the
\* virtual servers it stored), and the call's arguments.
\* RoutesBuilt is the end of processRoutes; g is the result of
\* getGroupedRoutes and b the result of the loop over the ports
RoutesBuilt(st, triggerDelete, extdSpec, partition, call, g, b) ==
  IF g.panic
  THEN [ltm |-> st.ltm, hp |-> g.hp, processed |-> st.processed, panic |-> TRUE,
        err |-> FALSE, processingError |-> FALSE, routes |-> g.routes,
        rejected |-> g.rejected, committed |-> {}, call |-> call]
  ELSE IF triggerDelete \/ Len(g.routes) = 0
  THEN [ltm |-> DeleteVirtuals(st.ltm, getBasicVirtualPorts, extdSpec, partition),
        hp |-> g.hp, processed |-> st.processed, panic |-> st.panic,
        err |-> FALSE, processingError |-> FALSE, routes |-> g.routes,
        rejected |-> g.rejected, committed |-> {}, call |-> call]
  ELSE [ltm |-> IF b.processingError THEN b.ltm
                ELSE CommitVsMap(b.ltm, b.vsMap, partition),
        hp |-> g.hp, processed |-> b.processed, panic |-> st.panic,
        err |-> FALSE, processingError |-> b.processingError, routes |-> g.routes,
        rejected |-> g.rejected,
        committed |-> IF b.processingError THEN {} ELSE DOMAIN b.vsMap,
        call |-> call]

\* processRoutes from the grouping of the routes on
RoutesGrouped(st, triggerDelete, extdSpec, partition, call, g) ==
  RoutesBuilt(st, triggerDelete, extdSpec, partition, call, g,
              BuildPorts(getVirtualPortsForRoutes(g.routes),
                         [ltm |-> st.ltm, processed |-> st.processed,
                          vsMap |-> EmptyMap, processingError |-> FALSE],
                         g.routes, extdSpec, partition))

\* processRoutes once the effective spec es is known
RoutesOfSpec(st, specMap, routeGroup, triggerDelete, listing, es, call) ==
  IF es.spec.nil
  THEN [ltm |-> st.ltm, hp |-> st.hp, processed |-> st.processed, panic |-> st.panic,
        err |-> TRUE, processingError |-> FALSE, routes |-> <<>>,
        rejected |-> <<>>, committed |-> {}, call |-> call]
  ELSE RoutesGrouped(st, triggerDelete, es.spec, es.partition, call,
                     getGroupedRoutes(specMap[routeGroup].namespaces, listing,
                                      es.spec, st.hp))

RoutesWithSpec(st, specMap, routeGroup, triggerDelete, listing, es) ==
  RoutesOfSpec(st, specMap, routeGroup, triggerDelete, listing, es,
               [routeGroup |-> routeGroup, triggerDelete |-> triggerDelete,
                extdSpec |-> es.spec, partition |-> es.partition])

processRoutes(st, specMap, routeGroup, triggerDelete, listing) ==
  RoutesWithSpec(st, specMap, routeGroup, triggerDelete, listing,
                 getExtendedRouteSpec(specMap, routeGroup))

(***************************************************************************)
(* The inputs of the model                                                 *)
(***************************************************************************)
Str_a == <<"a">>
Str_b == <<"b">>
Str_wild_a == <<"*", ".", "a">>
Root == <<"/">>
Path_x == <<"/", "x">>
Path_y == <<"/", "y">>

Route(name, ns, host, path, ts, tls, insecure, to, cert, rewrite) ==
  [name |-> name, ns |-> ns, host |-> host, path |-> path, ts |-> ts,
   tls |-> tls, insecure |-> insecure, to |-> to, cert |-> cert,
   destCA |-> (tls = "reencrypt"), rewrite |-> rewrite]

\* the versions a route of each name can be created with or updated to
RouteVersions ==
  { Route("r1", "ns1", Str_a, Root, 1, "", "", "svc1", "", ""),
    Route("r1", "ns1", Str_b, Path_x, 1, "edge", "Allow", "svc1", "valid", ""),
    Route("r1", "ns1", Str_b, Path_x, 1, "edge", "None", "svc1", "valid", "bad"),
    Route("r1", "ns1", Str_b, Path_x, 1, "reencrypt", "Allow", "svc1", "valid", ""),
    Route("r1", "ns1", Str_b, Path_x, 1, "edge", "Allow", "svc1", "expired", ""),
    Route("r2", "ns1", Str_a, <<>>, 2, "", "", "svc2", "", ""),
    Route("r2", "ns1", Str_wild_a, Path_y, 2, "", "", "svc2", "", "ok"),
    Route("r2", "ns1", Str_a, Path_y, 2, "", "", "nosvc", "", ""),
    Route("r3", "ns2", Str_a, Root, 1, "", "", "svc1", "", "") }

\* a spec as a document gives it: Meta.DependsOnTLSCipher is not set
Spec_(vserverName, vserverAddr, snat, healthMonitors) ==
  [nil |-> FALSE, vserverName |-> vserverName, vserverAddr |-> vserverAddr,
   snat |-> snat, tls |-> NoTLS, healthMonitors |-> healthMonitors,
   dependsOnTLSCipher |-> FALSE]

Monitors ==
  << [path |-> <<"b", "/", "x", "/", "h">>, type |-> ""],
     [path |-> <<"a", "/", "h">>, type |-> "http"],
     [path |-> <<"h", "/", "h">>, type |-> ""] >>

(***************************************************************************)
(* Handlers work on the reconciliation state                               *)
(*   st = [ltm, hp, processed, specMap, inv, panic, err, calls]            *)
(* and read the informer caches.  calls is the log of the processRoutes    *)
(* calls the handler made; panic is set when the handler dereferences a    *)
(* nil pointer, which ends the process.                                    *)
(***************************************************************************)
\* the log entry of one processRoutes call; r is the result of the call
CallLogged(st, routeGroup, triggerDelete, r) ==
  [st EXCEPT
     !.ltm = r.ltm, !.hp = r.hp, !.processed = r.processed,
     !.panic = r.panic, !.err = r.err,
     !.calls = Append(@,
        [routeGroup |-> routeGroup, triggerDelete |-> triggerDelete,
         extdSpec |-> r.call.extdSpec, partition |-> r.call.partition,
         err |-> r.err, processingError |-> r.processingError,
         routes |-> [i \in 1..Len(r.routes) |-> r.routes[i].name],
         accepted |-> r.routes,
         rejected |-> r.rejected, committed |-> r.committed,
         pre |-> st.ltm, post |-> r.ltm,
         hpPre |-> st.hp])]

\* one processRoutes call of a handler, logged
CallProcessRoutes(st, routeGroup, triggerDelete, listing) ==
  IF st.panic THEN st
  ELSE CallLogged(st, routeGroup, triggerDelete,
                  processRoutes([ltm |-> st.ltm, hp |-> st.hp,
                                 processed |-> st.processed, panic |-> st.panic],
                                st.specMap, routeGroup, triggerDelete, listing))

\* getNamespacesForRouteGroup outside the namespace-label mode: the group
\* is its namespace, and the reverse index learns it
getNamespacesForRouteGroup(namespaceGroup) == <<namespaceGroup>>

\* the route group of an entry of the global document: its namespace
\* label when it has one, else its namespace
RouteGroupOf(ergc) ==
  IF ergc.namespaceLabel # "" THEN ergc.namespaceLabel ELSE ergc.namespace

\* readBaseRouteConfigFromGlobalCM: the TLS cipher configuration is set to
\* the defaults and then to the fields the document gives
DefaultTLSCipher ==
  [tlsVersion |-> "1.2", ciphers |-> "DEFAULT", cipherGroup |-> "/Common/f5-default"]

readBaseRouteConfigFromGlobalCM(baseRouteConfig) ==
  [f \in DOMAIN DefaultTLSCipher |->
     IF baseRouteConfig[f] # "" THEN baseRouteConfig[f] ELSE DefaultTLSCipher[f]]

\* setNamespaceLabelMode: the document is refused when it does not parse
\* or when it selects by namespace and by namespace label; the mode is set
\* as soon as an entry by label is seen
setNamespaceLabelMode(cm) ==
  LET namespace == \E i \in 1..Len(cm.entries) : cm.entries[i].namespace # ""
      namespaceLabel == \E i \in 1..Len(cm.entries) : cm.entries[i].namespaceLabel # ""
  IN  [err |-> ~cm.valid \/ (namespace /\ namespaceLabel),
       namespaceLabelMode |-> cm.valid /\ namespaceLabel]

\* the map a global document parses to, entry by entry:
\* [map, inv, err]; err is set by an allowOverride that does not parse
RECURSIVE ParseGlobal(_, _, _)
ParseGlobal(entries, defaultPartition, acc) ==
  IF entries = <<>> \/ acc.err THEN acc
  ELSE
    LET ergc == Head(entries)
    IN  IF ergc.allowOverride \notin {"true", "false"}
        THEN [acc EXCEPT !.err = TRUE]
        ELSE ParseGlobal(Tail(entries), defaultPartition,
               [acc EXCEPT
                  !.map = MapPut(@, RouteGroupOf(ergc),
                            [override |-> ergc.allowOverride = "true",
                             local |-> NilSpec,
                             global |-> ergc.spec,
                             namespaces |-> getNamespacesForRouteGroup(RouteGroupOf(ergc)),
                             partition |-> IF ergc.bigIpPartition # ""
                                           THEN ergc.bigIpPartition
                                           ELSE defaultPartition]),
                  !.inv = MapPut(@, RouteGroupOf(ergc), RouteGroupOf(ergc))])

\* getOperationalExtendedConfigMapSpecs; order is the order in which the
\* Go maps happen to be iterated
getOperationalExtendedConfigMapSpecs(cachedMap, newMap, isDelete, order) ==
  IF isDelete
  THEN [deleted |-> SelectSeq(order, LAMBDA k : k \in DOMAIN newMap),
        modified |-> <<>>, updated |-> <<>>, created |-> <<>>, panic |-> FALSE]
  ELSE
    LET both(k) == k \in DOMAIN cachedMap /\ k \in DOMAIN newMap
        differs(k) == both(k) /\ cachedMap[k] # newMap[k]
        identity(k) ==
          \/ cachedMap[k].global.vserverName # newMap[k].global.vserverName
          \/ cachedMap[k].override # newMap[k].override
          \/ cachedMap[k].partition # newMap[k].partition
    IN  IF \E k \in DOMAIN cachedMap : cachedMap[k].global.nil
        THEN [deleted |-> <<>>, modified |-> <<>>, updated |-> <<>>,
              created |-> <<>>, panic |-> TRUE]
        ELSE
          [deleted |-> SelectSeq(order,
                         LAMBDA k : k \in DOMAIN cachedMap /\ k \notin DOMAIN newMap),
           modified |-> SelectSeq(order, LAMBDA k : differs(k) /\ identity(k)),
           updated |-> SelectSeq(order, LAMBDA k : differs(k) /\ ~identity(k))
                         \o SelectSeq(order, LAMBDA k :
                               /\ k \in DOMAIN cachedMap
                               /\ cachedMap[k].global.dependsOnTLSCipher
                               /\ ~(differs(k) /\ ~identity(k))),
           created |-> SelectSeq(order,
                         LAMBDA k : k \in DOMAIN newMap /\ k \notin DOMAIN cachedMap),
           panic |-> FALSE]

\* the fields a global revision overwrites in a cached entry
TakeGlobal(entry, newEntry) ==
  [entry EXCEPT !.override = newEntry.override, !.global = newEntry.global,
                !.partition = newEntry.partition, !.namespaces = newEntry.namespaces]

\* the loop of processConfigMap over deletedSpecs
RECURSIVE DeletedSpecs(_, _, _)

\* the rest of one iteration; s1 is the state the teardown call leaves
DeletedSpec(s1, keys, listing) ==
  IF s1.panic THEN s1
  ELSE IF Head(keys) \notin DOMAIN s1.specMap THEN [s1 EXCEPT !.panic = TRUE]
  ELSE IF s1.specMap[Head(keys)].local.nil
  THEN DeletedSpecs([s1 EXCEPT !.specMap = MapRemove(@, {Head(keys)})],
                    Tail(keys), listing)
  ELSE DeletedSpecs([s1 EXCEPT !.specMap[Head(keys)] =
                       [@ EXCEPT !.global = NilSpec, !.override = FALSE,
                                 !.partition = "", !.namespaces = <<>>]],
                    Tail(keys), listing)

DeletedSpecs(st, keys, listing) ==
  IF keys = <<>> \/ st.panic THEN st
  ELSE DeletedSpec(CallProcessRoutes(st, Head(keys), TRUE, listing), keys, listing)

\* the loop over modifiedSpecs
RECURSIVE ModifiedSpecs(_, _, _, _)

\* the rest of one iteration; s1 is the state the teardown call leaves
ModifiedSpec(s1, keys, newMap, listing) ==
  IF s1.panic THEN s1
  ELSE ModifiedSpecs(
         CallProcessRoutes([s1 EXCEPT !.specMap[Head(keys)] =
                              TakeGlobal(@, newMap[Head(keys)])],
                           Head(keys), FALSE, listing),
         Tail(keys), newMap, listing)

\* mutant: a modified group is rebuilt without the teardown of the virtual
\* servers under its previous spec
ModifiedSpecsNoTeardown(st, keys, newMap, listing) ==
  IF keys = <<>> \/ st.panic THEN st
  ELSE ModifiedSpec(st, keys, newMap, listing)

ModifiedSpecs(st, keys, newMap, listing) ==
  IF keys = <<>> \/ st.panic THEN st
  ELSE ModifiedSpec(CallProcessRoutes(st, Head(keys), TRUE, listing),
                    keys, newMap, listing)

\* the loop over updatedSpecs
RECURSIVE UpdatedSpecs(_, _, _, _)
UpdatedSpecs(st, keys, newMap, listing) ==
  IF keys = <<>> \/ st.panic THEN st
  ELSE IF Head(keys) \notin DOMAIN newMap \/ Head(keys) \notin DOMAIN st.specMap
  THEN [st EXCEPT !.panic = TRUE]
  ELSE
    LET k == Head(keys)
        s1 == [st EXCEPT !.specMap[k] = TakeGlobal(@, newMap[k])]
    IN  UpdatedSpecs(CallProcessRoutes(s1, k, FALSE, listing),
                     Tail(keys), newMap, listing)

\* the loop over createdSpecs
RECURSIVE CreatedSpecs(_, _, _, _)
CreatedSpecs(st, keys, newMap, listing) ==
  IF keys = <<>> \/ st.panic THEN st
  ELSE
    LET k == Head(keys)
        s1 == [st EXCEPT !.specMap = MapPut(@, k, newMap[k])]
    IN  CreatedSpecs(CallProcessRoutes(s1, k, FALSE, listing),
                     Tail(keys), newMap, listing)

\* the four loops of processConfigMap; ops holds the lists of groups
ComparedSpecs(s0, ops, newMap, listing) ==
  IF ops.panic
  THEN [st |-> [s0 EXCEPT !.panic = TRUE], retErr |-> FALSE, retOk |-> TRUE]
  ELSE [st |-> CreatedSpecs(
                 UpdatedSpecs(
                   ModifiedSpecs(DeletedSpecs(s0, ops.deleted, listing),
                                 ops.modified, newMap, listing),
                   ops.updated, newMap, listing),
                 ops.created, newMap, listing),
        retErr |-> FALSE, retOk |-> TRUE]

\* processConfigMap after the parse of the global document
ParsedGlobal(st, s0, parsed, isDelete, initState, listing, order) ==
  IF parsed.err THEN [st |-> s0, retErr |-> TRUE, retOk |-> FALSE]
  ELSE IF initState
  THEN [st |-> [s0 EXCEPT !.specMap = parsed.map], retErr |-> FALSE, retOk |-> TRUE]
  ELSE ComparedSpecs(s0,
                     getOperationalExtendedConfigMapSpecs(st.specMap, parsed.map,
                                                          isDelete, order),
                     parsed.map, listing)

ParsedGlobalWithInv(st, parsed, isDelete, initState, listing, order) ==
  ParsedGlobal(st, [st EXCEPT !.inv = parsed.inv], parsed, isDelete, initState,
               listing, order)

\* processConfigMap for the global document: [st, retErr, retOk]
processGlobalConfigMap(st, cm, isDelete, initState, defaultPartition, listing, order) ==
  IF ~cm.valid THEN [st |-> st, retErr |-> TRUE, retOk |-> FALSE]
  ELSE ParsedGlobalWithInv([st EXCEPT !.base = readBaseRouteConfigFromGlobalCM(cm.base)],
                           ParseGlobal(cm.entries, defaultPartition,
                                       [map |-> EmptyMap, inv |-> st.inv, err |-> FALSE]),
                           isDelete, initState, listing, order)

\* getLatestLocalConfigMap: the documents of the namespace as the informer
\* lists them, the first of the latest creation time; <<>> when none
RECURSIVE LatestOf(_, _)
LatestOf(cm, rest) ==
  IF rest = <<>> THEN cm
  ELSE LatestOf(IF cm.ts < Head(rest).ts THEN Head(rest) ELSE cm, Tail(rest))

\* mutant: the first document the informer lists is taken
getLatestLocalConfigMapFirst(cmListing, ns) ==
  LET objList == SelectSeq(cmListing, LAMBDA c : c.ns = ns)
  IN  IF objList = <<>> THEN <<>> ELSE <<Head(objList)>>

getLatestLocalConfigMap(cmListing, ns) ==
  LET objList == SelectSeq(cmListing, LAMBDA c : c.ns = ns)
  IN  IF objList = <<>> THEN <<>> ELSE <<LatestOf(Head(objList), objList)>>

\* the result of a handler that ends without error
ReturnOk(s) == [st |-> s, retErr |-> FALSE, retOk |-> TRUE]

\* mutant: the local spec is stored and the group is not rebuilt
LocalStored(s1, ns, new, routeGroup, listing) ==
  ReturnOk([s1 EXCEPT !.specMap[ns].local = new])

\* the rebuild with the local spec new; s1 is the state after the
\* teardown, when there was one
LocalRebuilt(s1, ns, new, routeGroup, listing) ==
  IF s1.panic THEN ReturnOk(s1)
  ELSE ReturnOk(CallProcessRoutes([s1 EXCEPT !.specMap[ns].local = new],
                                  routeGroup, FALSE, listing))

\* mutant: the group is rebuilt with the new local spec without the
\* teardown of the virtual servers under the old name
UpsertLocalConfigMapNoTeardown(st, cm, listing) ==
  LET ergc == cm.entries[1]
      ns == ergc.namespace
      routeGroup == st.inv[ns]
      spec == st.specMap[ns]
      new == ergc.spec
      old == IF spec.local.nil THEN spec.global ELSE spec.local
  IN  IF ~cm.valid THEN [st |-> st, retErr |-> TRUE, retOk |-> FALSE]
      ELSE IF cm.entries = <<>> THEN ReturnOk(st)
      ELSE IF ns # cm.ns THEN [st |-> st, retErr |-> TRUE, retOk |-> TRUE]
      ELSE IF ns \notin DOMAIN st.inv THEN [st |-> st, retErr |-> TRUE, retOk |-> TRUE]
      ELSE IF ns \notin DOMAIN st.specMap
      THEN [st |-> [st EXCEPT !.specMap = MapPut(@, ns,
                       [override |-> FALSE, local |-> new, global |-> NilSpec,
                        namespaces |-> <<>>, partition |-> ""])],
            retErr |-> FALSE, retOk |-> FALSE]
      ELSE IF ~spec.override \/ spec.global.nil THEN ReturnOk([st EXCEPT !.specMap[ns].local = new])
      ELSE IF old = new THEN ReturnOk(st)
      ELSE LocalRebuilt(st, ns, new, routeGroup, listing)

\* mutant: a local document of a group that may not be overridden is
\* stored and the group is rebuilt
UpsertLocalConfigMapRebuilding(st, cm, listing) ==
  LET ergc == cm.entries[1]
      ns == ergc.namespace
      routeGroup == st.inv[ns]
      spec == st.specMap[ns]
      new == ergc.spec
      old == IF spec.local.nil THEN spec.global ELSE spec.local
  IN  IF ~cm.valid THEN [st |-> st, retErr |-> TRUE, retOk |-> FALSE]
      ELSE IF cm.entries = <<>> THEN ReturnOk(st)
      ELSE IF ns # cm.ns THEN [st |-> st, retErr |-> TRUE, retOk |-> TRUE]
      ELSE IF ns \notin DOMAIN st.inv THEN [st |-> st, retErr |-> TRUE, retOk |-> TRUE]
      ELSE IF ns \notin DOMAIN st.specMap
      THEN [st |-> [st EXCEPT !.specMap = MapPut(@, ns,
                       [override |-> FALSE, local |-> new, global |-> NilSpec,
                        namespaces |-> <<>>, partition |-> ""])],
            retErr |-> FALSE, retOk |-> FALSE]
      ELSE IF ~spec.override \/ spec.global.nil
      THEN LocalRebuilt(st, ns, new, routeGroup, listing)
      ELSE IF old = new THEN ReturnOk(st)
      ELSE LocalRebuilt(IF old.vserverName # new.vserverName
                        THEN CallProcessRoutes(st, routeGroup, TRUE, listing)
                        ELSE st,
                        ns, new, routeGroup, listing)

\* processConfigMap for a local document that is created or updated
\* (lines 834-843 and 870-913): [st, retErr, retOk]
UpsertLocalConfigMap(st, cm, listing) ==
  LET ergc == cm.entries[1]
      ns == ergc.namespace
      routeGroup == st.inv[ns]
      spec == st.specMap[ns]
      new == ergc.spec
      old == IF spec.local.nil THEN spec.global ELSE spec.local
  IN  IF ~cm.valid THEN [st |-> st, retErr |-> TRUE, retOk |-> FALSE]
      ELSE IF cm.entries = <<>> THEN ReturnOk(st)
      ELSE IF ns # cm.ns THEN [st |-> st, retErr |-> TRUE, retOk |-> TRUE]
      ELSE IF ns \notin DOMAIN st.inv THEN [st |-> st, retErr |-> TRUE, retOk |-> TRUE]
      ELSE IF ns \notin DOMAIN st.specMap
      THEN [st |-> [st EXCEPT !.specMap = MapPut(@, ns,
                       [override |-> FALSE, local |-> new, global |-> NilSpec,
                        namespaces |-> <<>>, partition |-> ""])],
            retErr |-> FALSE, retOk |-> FALSE]
      ELSE IF ~spec.override \/ spec.global.nil
      THEN ReturnOk([st EXCEPT !.specMap[ns].local = new])
      ELSE IF old = new THEN ReturnOk(st)
      ELSE LocalRebuilt(IF old.vserverName # new.vserverName
                        THEN CallProcessRoutes(st, routeGroup, TRUE, listing)
                        ELSE st,
                        ns, new, routeGroup, listing)

\* the rebuild with the global spec; s1 is the state after the teardown
LocalRemoved(s1, ns, routeGroup, listing) ==
  IF s1.panic THEN ReturnOk(s1)
  ELSE ReturnOk(CallProcessRoutes([s1 EXCEPT !.specMap[ns].local = NilSpec],
                                  routeGroup, FALSE, listing))

\* localCM is the latest document that remains and alt the result of its
\* handling
LocalReplaced(st, localCM, alt, ns, routeGroup, listing) ==
  IF localCM # <<>> /\ ~alt.retErr THEN ReturnOk(alt.st)
  ELSE LocalRemoved(CallProcessRoutes(IF localCM # <<>> THEN alt.st ELSE st,
                                      routeGroup, TRUE, listing),
                    ns, routeGroup, listing)

LocalLatest(st, localCM, ns, routeGroup, listing) ==
  LocalReplaced(st, localCM, UpsertLocalConfigMap(st, localCM[1], listing),
                ns, routeGroup, listing)

\* processConfigMap for a local document that is deleted (lines 844-868);
\* cmListing is the informer's listing of the documents that remain
DeleteLocalConfigMap(st, cm, listing, cmListing) ==
  LET ergc == cm.entries[1]
      ns == ergc.namespace
      spec == st.specMap[ns]
  IN  IF ~cm.valid THEN [st |-> st, retErr |-> TRUE, retOk |-> FALSE]
      ELSE IF cm.entries = <<>> THEN ReturnOk(st)
      ELSE IF ns # cm.ns THEN [st |-> st, retErr |-> TRUE, retOk |-> TRUE]
      ELSE IF ns \notin DOMAIN st.inv THEN [st |-> st, retErr |-> TRUE, retOk |-> TRUE]
      ELSE IF ns \notin DOMAIN st.specMap
      THEN [st |-> [st EXCEPT !.specMap = MapPut(@, ns,
                       [override |-> FALSE, local |-> ergc.spec, global |-> NilSpec,
                        namespaces |-> <<>>, partition |-> ""])],
            retErr |-> FALSE, retOk |-> FALSE]
      ELSE IF ~spec.override THEN ReturnOk([st EXCEPT !.specMap[ns].local = NilSpec])
      ELSE LocalLatest(st, getLatestLocalConfigMap(cmListing, ns), ns, st.inv[ns],
                       listing)

\* processConfigMap
processConfigMap(st, cm, isDelete, initState, defaultPartition, listing, order, cmListing) ==
  IF cm.global
  THEN processGlobalConfigMap(st, cm, isDelete, initState, defaultPartition, listing, order)
  ELSE IF isDelete THEN DeleteLocalConfigMap(st, cm, listing, cmListing)
  ELSE UpsertLocalConfigMap(st, cm, listing)

(***************************************************************************)
(* processNativeResource: one key of the work queue                        *)
(***************************************************************************)
\* the end of the Route case; s2 is the state the processRoutes call leaves
RouteBuilt(s2) == [st |-> s2, retry |-> s2.err]

\* the Route case after the purge of a deleted route, which left s1
RoutePurged(st, s1, route, listing) ==
  IF route.ns \notin DOMAIN st.inv
  THEN [st |-> s1, retry |-> FALSE]
  ELSE RouteBuilt(CallProcessRoutes(s1, st.inv[route.ns], FALSE, listing))

\* the Route case (lines 73-103): [st, retry]
processRouteKey(st, rKey, listing) ==
  IF rKey.event = "Create" /\ <<rKey.rsc.ns, rKey.rsc.name>> \in st.processed
  THEN [st |-> st, retry |-> FALSE]
  ELSE RoutePurged(st,
                   IF rKey.event = "Delete"
                   THEN [st EXCEPT !.processed = @ \ {<<rKey.rsc.ns, rKey.rsc.name>>},
                                   !.hp = deleteHostPathMapEntry(@, rKey.rsc)]
                   ELSE st,
                   rKey.rsc, listing)

\* the end of the ConfigMap case; r is the result of processConfigMap
ConfigMapReturned(r) == [st |-> r.st, retry |-> ~r.retErr /\ ~r.retOk]

\* the ConfigMap case (lines 105-115): an error is logged and the key is
\* not retried; a document that is not ok is retried
processConfigMapKey(st, rKey, initState, defaultPartition, listing, order, cmListing) ==
  ConfigMapReturned(processConfigMap(st, rKey.rsc, rKey.event = "Delete", initState,
                                     defaultPartition, listing, order, cmListing))

\* the Namespace case outside the namespace-label mode (lines 156-188): the
\* group of the namespace is built again, or torn down when the namespace
\* is deleted; the listing is the one its informers give after the change
processNamespaceKey(st, rKey, listing) ==
  IF rKey.rsc.name \notin DOMAIN st.inv THEN [st |-> st, retry |-> FALSE]
  ELSE [st |-> CallProcessRoutes(st, st.inv[rKey.rsc.name], rKey.event = "Delete", listing),
        retry |-> FALSE]

\* copyConfig: the fresh config takes the metadata, the virtual, the pools
\* and the policies of the stored one; its other fields keep their zero
\* values
copyConfig(cfg) ==
  [partition |-> cfg.partition, name |-> cfg.name, protocol |-> cfg.protocol,
   bindAddr |-> cfg.bindAddr, port |-> cfg.port, snat |-> cfg.snat,
   iRules |-> cfg.iRules, monitors |-> <<>>, pools |-> cfg.pools,
   policies |-> cfg.policies, hosts |-> cfg.hosts,
   baseResources |-> cfg.baseResources,
   intDgMap |-> EmptyMap, iRulesMap |-> {}, customProfiles |-> {}]

\* the loop of updatePoolMembersForRoutes over the basic virtual ports: the
\* stored config of a port is replaced by its copy, whose pool members are
\* read again from the endpoints
RECURSIVE RefreshVirtuals(_, _, _, _)
RefreshVirtuals(ltm, portStructs, extdSpec, partition) ==
  IF portStructs = <<>> THEN ltm
  ELSE RefreshVirtuals(
         IF getVirtualServer(ltm, partition,
                             frameRouteVSName(extdSpec.vserverName, extdSpec.vserverAddr,
                                              Head(portStructs)))
         THEN [ltm EXCEPT ![partition][frameRouteVSName(extdSpec.vserverName,
                                                        extdSpec.vserverAddr,
                                                        Head(portStructs))] =
                 copyConfig(@)]
         ELSE ltm,
         Tail(portStructs), extdSpec, partition)

\* updatePoolMembersForRoutes
updatePoolMembersForRoutes(st, namespace) ==
  IF namespace \notin DOMAIN st.inv THEN st
  ELSE IF getExtendedRouteSpec(st.specMap, st.inv[namespace]).spec.nil THEN st
  ELSE [st EXCEPT !.ltm =
          RefreshVirtuals(@, getBasicVirtualPorts,
                          getExtendedRouteSpec(st.specMap, st.inv[namespace]).spec,
                          getExtendedRouteSpec(st.specMap, st.inv[namespace]).partition)]

\* the Service case (lines 118-134) for a service that is no load balancer:
\* during the bulk load only the pool members are accumulated
processServiceKey(st, rKey, initState) ==
  [st |-> IF initState THEN st ELSE updatePoolMembersForRoutes(st, rKey.rsc.ns),
   retry |-> FALSE]

\* the Endpoints case (lines 135-154); the service of the endpoints exists
processEndpointsKey(st, rKey) ==
  [st |-> updatePoolMembersForRoutes(st, rKey.rsc.ns), retry |-> FALSE]

\* the verdict on the key; r is the result of the case of the key's kind
KeyReturned(r, init, count) ==
  [st |-> r.st, initState |-> init, initialSvcCount |-> count,
   gated |-> FALSE, retry |-> r.retry]

\* processNativeResource up to the verdict on the key:
\* [st, initState, initialSvcCount, gated, retry]
processNativeResource(st, rKey, initState, initialSvcCount, defaultPartition, listing, order, cmListing) ==
  LET count == IF initState /\ rKey.kind = "Service"
               THEN initialSvcCount - 1 ELSE initialSvcCount
      init == IF initState /\ rKey.kind = "Service" /\ count <= 0
              THEN FALSE ELSE initState
  IN  IF initState /\ rKey.kind \notin {"Namespace", "Service"}
      THEN [st |-> st, initState |-> initState, initialSvcCount |-> initialSvcCount,
            gated |-> TRUE, retry |-> TRUE]
      ELSE KeyReturned(CASE rKey.kind = "Route" -> processRouteKey(st, rKey, listing)
                         [] rKey.kind = "ConfigMap" ->
                              processConfigMapKey(st, rKey, init, defaultPartition,
                                                  listing, order, cmListing)
                         [] rKey.kind = "Namespace" -> processNamespaceKey(st, rKey, listing)
                         [] rKey.kind = "Service" -> processServiceKey(st, rKey, init)
                         [] rKey.kind = "Endpoints" -> processEndpointsKey(st, rKey)
                         [] OTHER -> [st |-> st, retry |-> FALSE],
                       init, count)

(***************************************************************************)
(* The documents the cluster can hold                                      *)
(***************************************************************************)
Name_gw == <<"g", "w">>
Name_gw2 == <<"g", "w", "2">>
Addr_1 == <<"1">>
Addr_2 == <<"2">>

Ergc(namespace, allowOverride, bigIpPartition, spec) ==
  [namespace |-> namespace, namespaceLabel |-> "", allowOverride |-> allowOverride,
   bigIpPartition |-> bigIpPartition, spec |-> spec]

\* an entry that selects its namespaces by label
ErgcLabel(namespaceLabel, allowOverride, bigIpPartition, spec) ==
  [namespace |-> "", namespaceLabel |-> namespaceLabel,
   allowOverride |-> allowOverride, bigIpPartition |-> bigIpPartition, spec |-> spec]

\* the baseRouteConfig block of a document that sets none of its fields
NoBase == [tlsVersion |-> "", ciphers |-> "", cipherGroup |-> ""]

ConfigMap(name, ns, ts, global, entries) ==
  [name |-> name, ns |-> ns, ts |-> ts, global |-> global, valid |-> TRUE,
   base |-> NoBase, entries |-> entries]

\* the controller's own partition (ctlr.Partition) and the key of the
\* global document (ctlr.routeSpecCMKey)
DefaultPartition == "test"

\* revisions of the global document: ns1 may be overridden and is served
\* under the name gw, ns2 may not and is named after its address
InitialGlobal ==
  ConfigMap("global", "kube-system", 0, TRUE,
    << Ergc("ns1", "true", "", Spec_(Name_gw, Addr_1, "", Monitors)),
       Ergc("ns2", "false", "", Spec_(<<>>, Addr_2, "", <<>>)) >>)

\* a revision whose second entry has an allowOverride that is no boolean;
\* its first entry names a namespace not seen before and it sets the TLS
\* version of the base route configuration
GlobalBadOverride ==
  [ConfigMap("global", "kube-system", 0, TRUE,
     << Ergc("ns3", "true", "", Spec_(Name_gw2, Addr_2, "", <<>>)),
        Ergc("ns1", "maybe", "", Spec_(Name_gw, Addr_1, "", Monitors)) >>)
   EXCEPT !.base = [tlsVersion |-> "1.3", ciphers |-> "", cipherGroup |-> ""]]

\* a revision whose extendedSpec does not parse
GlobalUnparsable ==
  [ConfigMap("global", "kube-system", 0, TRUE, <<>>) EXCEPT !.valid = FALSE]

\* a revision with one entry by namespace and one by namespace label
GlobalMixed ==
  ConfigMap("global", "kube-system", 0, TRUE,
    << Ergc("ns1", "true", "", Spec_(Name_gw, Addr_1, "", Monitors)),
       ErgcLabel("prod", "false", "", Spec_(<<>>, Addr_2, "", <<>>)) >>)

\* a revision that serves ns1 under another name in another partition and
\* permits ns2 to be overridden
GlobalRenamed ==
  ConfigMap("global", "kube-system", 0, TRUE,
    << Ergc("ns1", "true", "p2", Spec_(Name_gw2, Addr_1, "", Monitors)),
       Ergc("ns2", "true", "", Spec_(<<>>, Addr_2, "", <<>>)) >>)

GlobalVersions ==
  { InitialGlobal, GlobalRenamed,
    ConfigMap("global", "kube-system", 0, TRUE,
      << Ergc("ns1", "true", "", Spec_(Name_gw, Addr_1, "none", Monitors)) >>),
    GlobalBadOverride, GlobalUnparsable, GlobalMixed }

\* revisions of the local documents
LocalVersions ==
  { ConfigMap("l1", "ns1", 1, FALSE,
      << Ergc("ns1", "", "", Spec_(Name_gw2, Addr_1, "", Monitors)) >>),
    ConfigMap("l1", "ns1", 1, FALSE,
      << Ergc("ns1", "", "", Spec_(Name_gw, Addr_1, "none", <<>>)) >>),
    ConfigMap("l1", "ns1", 1, FALSE,
      << Ergc("ns1", "", "", Spec_(Name_gw, Addr_1, "", <<>>)) >>),
    ConfigMap("l2", "ns2", 1, FALSE,
      << Ergc("ns2", "", "", Spec_(Name_gw2, Addr_2, "", <<>>)) >>),
    ConfigMap("l2", "ns2", 1, FALSE,
      << Ergc("ns2", "", "", Spec_(Name_gw2, Addr_2, "none", <<>>)) >>) }

ConfigMapVersions == GlobalVersions \cup LocalVersions

\* the orders in which a set can be listed or a Go map iterated
Listings(S) ==
  { s \in [1..Cardinality(S) -> S] : \A i, j \in 1..Cardinality(S) : i # j => s[i] # s[j] }

MapValues(m) == { m[k] : k \in DOMAIN m }

RouteGroups == {"ns1", "ns2"}

(***************************************************************************)
(* The state machine                                                       *)
(***************************************************************************)
MaxQueue == 2
MaxEvents == 3
InitialServices == 1

VARIABLES
  routeCache,                 \* route informer: name -> route
  cmCache,                    \* config map informer: name -> document
  queue,                      \* nativeResourceQueue
  delayed,                    \* keys added rate limited, not yet back in the queue
  initState,
  initialSvcCount,
  extdSpecMap,
  invertedNamespaceLabelMap,
  ltmConfig,
  ltmConfigCache,
  dnsConfig,
  dnsConfigCache,
  processedHostPathMap,
  processedNativeResources,
  nrInformers,                \* namespaces that have informers
  baseRouteConfig,            \* the TLS cipher configuration of the global document
  svcSeen,                    \* Service keys the worker has taken, up to the initial count
  mutex,                      \* processedHostPath: the lock of the claim map
  tasks,                      \* the status write-back goroutines
  section,                    \* the locked section the work loop is in
  crashed,                    \* a handler panicked
  calls,                      \* the processRoutes calls of the last handler
  outcome,                    \* what became of the last key
  events,                     \* number of cluster events so far
  args,                       \* the arguments of a function applied by itself
  result                      \* and what it returned

vars == <<routeCache, cmCache, queue, delayed, initState, initialSvcCount,
          extdSpecMap, invertedNamespaceLabelMap, ltmConfig, ltmConfigCache,
          dnsConfig, dnsConfigCache, processedHostPathMap,
          processedNativeResources, nrInformers, baseRouteConfig, svcSeen,
          mutex, tasks, section, crashed, calls, outcome, events, args, result>>

\* a function applied by itself
applied == <<args, result>>

\* the lock of the claim map and those who take it
writeback == <<mutex, tasks, section>>

cluster == <<routeCache, cmCache>>

controller == <<initState, initialSvcCount, extdSpecMap, invertedNamespaceLabelMap,
                ltmConfig, ltmConfigCache, dnsConfig, dnsConfigCache,
                processedHostPathMap, processedNativeResources, nrInformers,
                baseRouteConfig, svcSeen, writeback, crashed, calls, outcome,
                applied>>

rqKey(kind, event, rsc) == [kind |-> kind, event |-> event, rsc |-> rsc]

NoKey == [kind |-> "", event |-> "", rsc |-> ""]

ServiceKey == rqKey("Service", "Create", [ns |-> "ns1", name |-> "svc1"])

\* the Add event of the service that exists at the start is queued before
\* the worker starts, or arrives later
InitialQueues == {<<ServiceKey>>, <<>>}

\* the handler state made of the controller's fields
Store ==
  [ltm |-> ltmConfig, hp |-> processedHostPathMap,
   processed |-> processedNativeResources, specMap |-> extdSpecMap,
   inv |-> invertedNamespaceLabelMap, base |-> baseRouteConfig,
   panic |-> FALSE, err |-> FALSE, calls |-> <<>>]

\* the lock of the claim map: free, or held by the work loop (0) or by a
\* write-back task
WorkLoop == 0

Unlocked == [held |-> FALSE, by |-> WorkLoop]

HeldBy(i) == [held |-> TRUE, by |-> i]

\* the write-back tasks the model follows
MaxTasks == 2

TaskIds == 1..MaxTasks

\* a task: where it is in updateRouteAdmitStatus, its retryCount, the
\* UpdateStatus calls and the eraseAllRouteAdmitStatus calls it has made,
\* and the unmonitored routes it has still to visit
NoTask == [pc |-> "none", retryCount |-> 0, attempts |-> 0, passes |-> 0,
           pending |-> <<>>]

\* the state at the start; r is the result of processConfigMap on the
\* global document
Loaded(r) ==
  /\ routeCache = EmptyMap
  /\ cmCache = MapPut(EmptyMap, "global", InitialGlobal)
  /\ queue \in InitialQueues
  /\ delayed = {}
  /\ initState = TRUE
  /\ initialSvcCount = InitialServices
  /\ extdSpecMap = r.st.specMap
  /\ invertedNamespaceLabelMap = r.st.inv
  /\ baseRouteConfig = r.st.base
  /\ ltmConfig = EmptyMap
  /\ ltmConfigCache = EmptyMap
  /\ dnsConfig = EmptyMap
  /\ dnsConfigCache = EmptyMap
  /\ processedHostPathMap = EmptyMap
  /\ processedNativeResources = {}
  /\ nrInformers = RouteGroups
  /\ svcSeen = 0
  /\ mutex = Unlocked
  /\ tasks = [i \in TaskIds |-> NoTask]
  /\ section = <<>>
  /\ crashed = FALSE
  /\ calls = <<>>
  /\ outcome = [key |-> NoKey, result |-> "", published |-> FALSE]
  /\ events = 0

\* ResourceStore.Init, then nativeResourceWorker up to its loop: the
\* service count is taken and the global document is read in the bulk-load
\* phase; the informers of the namespaces are running
Init ==
  /\ args = <<>>
  /\ result = <<>>
  /\ ~setNamespaceLabelMode(InitialGlobal).err
  /\ ~setNamespaceLabelMode(InitialGlobal).namespaceLabelMode
  /\ Loaded(processConfigMap([ltm |-> EmptyMap, hp |-> EmptyMap, processed |-> {},
                           specMap |-> EmptyMap, inv |-> EmptyMap, base |-> NoBase,
                           panic |-> FALSE, err |-> FALSE, calls |-> <<>>],
                          InitialGlobal, FALSE, TRUE, DefaultPartition,
                          <<>>, <<>>, <<>>))

\* an informer callback queues a key
Enqueue(key) ==
  /\ Len(queue) + Cardinality(delayed) < MaxQueue
  /\ events < MaxEvents
  /\ queue' = Append(queue, key)
  /\ events' = events + 1
  /\ UNCHANGED <<delayed, controller>>

\* the document is in a namespace whose informers run; the global document
\* has an informer of its own
Watched(cm) == cm.global \/ cm.ns \in nrInformers

CreateRoute ==
  \E r \in RouteVersions :
    /\ r.ns \in nrInformers
    /\ r.name \notin DOMAIN routeCache
    /\ routeCache' = MapPut(routeCache, r.name, r)
    /\ Enqueue(rqKey("Route", "Create", r))
    /\ UNCHANGED cmCache

UpdateRoute ==
  \E r \in RouteVersions :
    /\ r.ns \in nrInformers
    /\ r.name \in DOMAIN routeCache
    /\ routeCache[r.name] # r
    /\ routeCache' = MapPut(routeCache, r.name, r)
    /\ Enqueue(rqKey("Route", "Update", r))
    /\ UNCHANGED cmCache

DeleteRoute ==
  \E n \in DOMAIN routeCache :
    /\ routeCache[n].ns \in nrInformers
    /\ routeCache' = MapRemove(routeCache, {n})
    /\ Enqueue(rqKey("Route", "Delete", routeCache[n]))
    /\ UNCHANGED cmCache

CreateConfigMap ==
  \E cm \in ConfigMapVersions :
    /\ Watched(cm)
    /\ cm.name \notin DOMAIN cmCache
    /\ cmCache' = MapPut(cmCache, cm.name, cm)
    /\ Enqueue(rqKey("ConfigMap", "Create", cm))
    /\ UNCHANGED routeCache

UpdateConfigMap ==
  \E cm \in ConfigMapVersions :
    /\ Watched(cm)
    /\ cm.name \in DOMAIN cmCache
    /\ cmCache[cm.name] # cm
    /\ cmCache' = MapPut(cmCache, cm.name, cm)
    /\ Enqueue(rqKey("ConfigMap", "Update", cm))
    /\ UNCHANGED routeCache

DeleteConfigMap ==
  \E n \in DOMAIN cmCache :
    /\ Watched(cmCache[n])
    /\ cmCache' = MapRemove(cmCache, {n})
    /\ Enqueue(rqKey("ConfigMap", "Delete", cmCache[n]))
    /\ UNCHANGED routeCache

UpdateService ==
  /\ Enqueue(rqKey("Service", "Update", [ns |-> "ns1", name |-> "svc1"]))
  /\ UNCHANGED cluster

\* a namespace enters or leaves the scope of the controller
NamespaceEvent ==
  \E ns \in RouteGroups, event \in {"Create", "Delete"} :
    /\ event = "Delete" => ns \in nrInformers
    /\ Enqueue(rqKey("Namespace", event, [name |-> ns]))
    /\ UNCHANGED cluster

\* an event of the endpoints of a service, or of a kind the worker has no
\* case for
OtherEvent ==
  \E kind \in {"Endpoints", "IngressLink"} :
    /\ Enqueue(rqKey(kind, "Update", [ns |-> "ns1", name |-> "svc1"]))
    /\ UNCHANGED cluster

\* the rate limiter hands a key back to the queue
Redeliver ==
  \E key \in delayed :
    /\ ~crashed
    /\ queue' = Append(queue, key)
    /\ delayed' = delayed \ {key}
    /\ UNCHANGED <<cluster, controller, events>>

\* the informers after the handling of the key: the Namespace case stops
\* those of a deleted namespace and starts those of an added one
InformersAfter(rKey) ==
  IF rKey.kind # "Namespace" THEN nrInformers
  ELSE IF rKey.event = "Delete" THEN nrInformers \ {rKey.rsc.name}
  ELSE nrInformers \cup {rKey.rsc.name}

\* the informer listings a handler may see for the key at hand
RouteListings == Listings({r \in MapValues(routeCache) : r.ns \in nrInformers})

RouteListingsFor(rKey) ==
  Listings({r \in MapValues(routeCache) : r.ns \in InformersAfter(rKey)})

GroupOrders(rKey) ==
  IF rKey.kind = "ConfigMap" /\ rKey.rsc.global /\ ~initState
  THEN Listings(DOMAIN extdSpecMap
                  \cup {RouteGroupOf(rKey.rsc.entries[i]) : i \in 1..Len(rKey.rsc.entries)})
  ELSE {<<>>}

ConfigMapListings(rKey) ==
  IF rKey.kind = "ConfigMap" /\ ~rKey.rsc.global /\ rKey.event = "Delete"
  THEN Listings({cm \in MapValues(cmCache) : ~cm.global /\ cm.ns \in nrInformers})
  ELSE {<<>>}

\* getLTMConfigCopy: a new map of the same partitions that refers to the
\* same resource configs
getLTMConfigCopy(ltm) == [prtn \in DOMAIN ltm |-> ltm[prtn]]

\* getGTMConfigCopy: the wide IPs are written into the cache that is in
\* place, and the map that is returned is the empty one it made
getGTMConfigCopy(dns, dnsCache) ==
  [copy |-> EmptyMap,
   cache |-> [d \in DOMAIN dnsCache \cup DOMAIN dns |->
                IF d \in DOMAIN dns THEN dns[d] ELSE dnsCache[d]]]

\* updateCaches: the two snapshots it leaves
updateCaches(ltm, dns, dnsCache) ==
  [ltmConfigCache |-> getLTMConfigCopy(ltm),
   dnsConfigCache |-> getGTMConfigCopy(dns, dnsCache).copy]

isConfigUpdated(ltm, ltmCache, dns, dnsCache) == ltm # ltmCache \/ dns # dnsCache

\* postResourceConfigRequest: whether a request was posted, the config it
\* carried, and the snapshots and the bulk-load flag afterwards
postResourceConfigRequest(ltm, ltmCache, dns, dnsCache, init) ==
  IF isConfigUpdated(ltm, ltmCache, dns, dnsCache)
  THEN [published |-> TRUE,
        request |-> [ltmConfig |-> ltm, gtmConfig |-> getGTMConfigCopy(dns, dnsCache).copy],
        ltmConfigCache |-> updateCaches(ltm, dns, dnsCache).ltmConfigCache,
        dnsConfigCache |-> updateCaches(ltm, dns, dnsCache).dnsConfigCache,
        initState |-> FALSE]
  ELSE [published |-> FALSE, request |-> <<>>, ltmConfigCache |-> ltmCache,
        dnsConfigCache |-> dnsCache, initState |-> init]

\* the end of processNativeResource (lines 192-200): the key is forgotten
\* or added again rate limited, and the config is published when the queue
\* is empty and the config changed; r is the result of the handling and
\* post the result of postResourceConfigRequest
KeyPublished(rKey, r, post) ==
  /\ queue' = Tail(queue)
  /\ crashed' = r.st.panic
  /\ delayed' = IF r.retry /\ ~r.st.panic THEN delayed \cup {rKey} ELSE delayed
  /\ extdSpecMap' = r.st.specMap
  /\ invertedNamespaceLabelMap' = r.st.inv
  /\ baseRouteConfig' = r.st.base
  /\ ltmConfig' = r.st.ltm
  /\ processedHostPathMap' = r.st.hp
  /\ processedNativeResources' = r.st.processed
  /\ calls' = r.st.calls
  /\ initialSvcCount' = r.initialSvcCount
  /\ nrInformers' = IF r.gated THEN nrInformers ELSE InformersAfter(rKey)
  /\ svcSeen' = IF rKey.kind = "Service" /\ svcSeen < InitialServices
                THEN svcSeen + 1 ELSE svcSeen
  /\ outcome' = [key |-> rKey,
                 result |-> IF r.st.panic THEN "panic"
                            ELSE IF r.retry THEN "AddRateLimited" ELSE "Forget",
                 published |-> post.published]
  /\ initState' = post.initState
  /\ ltmConfigCache' = post.ltmConfigCache
  /\ dnsConfigCache' = post.dnsConfigCache
  /\ UNCHANGED <<cluster, dnsConfig, writeback, events, applied>>

\* mutant: the publish check is made after every key
KeyProcessedEagerly(rKey, r) ==
  KeyPublished(rKey, r,
               IF ~r.gated /\ ~r.st.panic
               THEN postResourceConfigRequest(r.st.ltm, ltmConfigCache, dnsConfig,
                                              dnsConfigCache, r.initState)
               ELSE [published |-> FALSE, request |-> <<>>,
                     ltmConfigCache |-> ltmConfigCache,
                     dnsConfigCache |-> dnsConfigCache,
                     initState |-> IF r.st.panic THEN initState ELSE r.initState])

\* the publish check is reached when the handler ran to its end (the
\* bulk-load gate returns before it) and the queue is empty
KeyProcessed(rKey, r) ==
  KeyPublished(rKey, r,
               IF ~r.gated /\ ~r.st.panic /\ Tail(queue) = <<>>
               THEN postResourceConfigRequest(r.st.ltm, ltmConfigCache, dnsConfig,
                                              dnsConfigCache, r.initState)
               ELSE [published |-> FALSE, request |-> <<>>,
                     ltmConfigCache |-> ltmConfigCache,
                     dnsConfigCache |-> dnsConfigCache,
                     initState |-> IF r.st.panic THEN initState ELSE r.initState])

\* one turn of the worker loop: processNativeResource on the head of the
\* queue, the verdict on the key, and the publish check
Worker ==
  /\ ~crashed
  /\ queue # <<>>
  /\ \E listing \in RouteListingsFor(Head(queue)), order \in GroupOrders(Head(queue)),
        cmListing \in ConfigMapListings(Head(queue)) :
       KeyProcessed(Head(queue),
                    processNativeResource(Store, Head(queue), initState, initialSvcCount,
                                          DefaultPartition, listing, order, cmListing))

Next ==
  \/ CreateRoute
  \/ UpdateRoute
  \/ DeleteRoute
  \/ CreateConfigMap
  \/ UpdateConfigMap
  \/ DeleteConfigMap
  \/ UpdateService
  \/ NamespaceEvent
  \/ OtherEvent
  \/ Redeliver
  \/ Worker

Spec == Init /\ [][Next]_vars

(***************************************************************************)
(* The work loop with cipher-dependent groups.  The global spec of a group *)
(* is flagged as depending on the TLS cipher configuration when a TLS      *)
(* profile of the group is made from the base route configuration; the     *)
(* group then has a virtual server.                                        *)
(***************************************************************************)
MarkCipherDependent ==
  \E k \in DOMAIN extdSpecMap :
    /\ ~crashed
    /\ ~initState
    /\ ~extdSpecMap[k].global.nil
    /\ ~extdSpecMap[k].global.dependsOnTLSCipher
    /\ \E portStruct \in {HTTP, HTTPS} :
         getVirtualServer(ltmConfig, extdSpecMap[k].partition,
                          frameRouteVSName(getExtendedRouteSpec(extdSpecMap, k).spec.vserverName,
                                           getExtendedRouteSpec(extdSpecMap, k).spec.vserverAddr,
                                           portStruct))
    /\ extdSpecMap' = [extdSpecMap EXCEPT ![k].global.dependsOnTLSCipher = TRUE]
    /\ UNCHANGED <<cluster, queue, delayed, initState, initialSvcCount,
                   invertedNamespaceLabelMap, ltmConfig, ltmConfigCache, dnsConfig,
                   dnsConfigCache, processedHostPathMap, processedNativeResources,
                   nrInformers, baseRouteConfig, svcSeen, writeback, crashed, calls,
                   outcome, events, applied>>

NextCipher ==
  \/ Next
  \/ MarkCipherDependent

SpecCipher == Init /\ [][NextCipher]_vars

(***************************************************************************)
(* The work loop with a revision of the global document that moves ns2,    *)
(* whose virtual servers are named after its address, to another address.  *)
(***************************************************************************)
Addr_3 == <<"3">>

GlobalReaddressed ==
  ConfigMap("global", "kube-system", 0, TRUE,
    << Ergc("ns1", "true", "", Spec_(Name_gw, Addr_1, "", Monitors)),
       Ergc("ns2", "false", "", Spec_(<<>>, Addr_3, "", <<>>)) >>)

ReviseAddress ==
  /\ "global" \in DOMAIN cmCache
  /\ cmCache["global"] # GlobalReaddressed
  /\ cmCache' = MapPut(cmCache, "global", GlobalReaddressed)
  /\ Enqueue(rqKey("ConfigMap", "Update", GlobalReaddressed))
  /\ UNCHANGED routeCache

NextAddress ==
  \/ Next
  \/ ReviseAddress

SpecAddress == Init /\ [][NextAddress]_vars

(***************************************************************************)
(* The bulk-load phase by itself.  The controller starts with any number   *)
(* of pre-existing services; the informer delivers an Add event for each   *)
(* of them, routes and local documents are created meanwhile.  The worker  *)
(* loop never pauses, the rate limiter hands every key back after its      *)
(* delay, and the informer delivers the Add events of the objects it       *)
(* listed: these three steps are taken whenever they stay possible.        *)
(***************************************************************************)
MaxServices == 2

\* setInitialServiceCount: the number of services in the watched namespaces
setInitialServiceCount == 0..MaxServices

InitBulkLoad ==
  /\ args = <<>>
  /\ result = <<>>
  /\ routeCache = EmptyMap
  /\ cmCache = MapPut(EmptyMap, "global", InitialGlobal)
  /\ queue = <<>>
  /\ delayed = {}
  /\ initState = TRUE
  /\ initialSvcCount \in setInitialServiceCount
  /\ extdSpecMap = processConfigMap([ltm |-> EmptyMap, hp |-> EmptyMap, processed |-> {},
                                     specMap |-> EmptyMap, inv |-> EmptyMap, base |-> NoBase,
                                     panic |-> FALSE, err |-> FALSE, calls |-> <<>>],
                                    InitialGlobal, FALSE, TRUE, DefaultPartition,
                                    <<>>, <<>>, <<>>).st.specMap
  /\ invertedNamespaceLabelMap =
       processConfigMap([ltm |-> EmptyMap, hp |-> EmptyMap, processed |-> {},
                         specMap |-> EmptyMap, inv |-> EmptyMap, base |-> NoBase,
                         panic |-> FALSE, err |-> FALSE, calls |-> <<>>],
                        InitialGlobal, FALSE, TRUE, DefaultPartition,
                        <<>>, <<>>, <<>>).st.inv
  /\ baseRouteConfig = NoBase
  /\ ltmConfig = EmptyMap
  /\ ltmConfigCache = EmptyMap
  /\ dnsConfig = EmptyMap
  /\ dnsConfigCache = EmptyMap
  /\ processedHostPathMap = EmptyMap
  /\ processedNativeResources = {}
  /\ nrInformers = RouteGroups
  /\ svcSeen = 0
  /\ mutex = Unlocked
  /\ tasks = [i \in TaskIds |-> NoTask]
  /\ section = <<>>
  /\ crashed = FALSE
  /\ calls = <<>>
  /\ outcome = [key |-> NoKey, result |-> "", published |-> FALSE]
  /\ events = 0

\* the Service keys in the queue
ServiceKeysQueued == Cardinality({i \in 1..Len(queue) : queue[i].kind = "Service"})

\* the informer delivers the Add event of a pre-existing service
DeliverService ==
  /\ ~crashed
  /\ initState
  /\ ServiceKeysQueued < initialSvcCount
  /\ queue' = Append(queue, ServiceKey)
  /\ UNCHANGED <<delayed, events, cluster, controller>>

\* a route or a document is created while the phase lasts
MaxEarly == 2

CreateEarlyRoute == initState /\ events < MaxEarly /\ CreateRoute

CreateEarlyConfigMap == initState /\ events < MaxEarly /\ CreateConfigMap

NextBulkLoad ==
  \/ DeliverService
  \/ CreateEarlyRoute
  \/ CreateEarlyConfigMap
  \/ Redeliver
  \/ Worker

\* the step of the worker loop: it alone takes the head of the queue, and
\* it can whenever the queue holds a key
TakesKey == ~crashed /\ queue # <<>> /\ queue' = Tail(queue)

SpecBulkLoad ==
  /\ InitBulkLoad
  /\ [][NextBulkLoad]_vars
  /\ WF_queue(TakesKey)
  /\ WF_vars(Redeliver)
  /\ WF_vars(DeliverService)

(***************************************************************************)
(* The work loop with several local documents in one namespace: ns1 has a  *)
(* route, and local documents of different creation times are created and  *)
(* deleted there.                                                          *)
(***************************************************************************)
MaxLocalEvents == 5

\* the local documents of ns1, each with a name of its own for the virtual
\* servers, or with the name of the global spec
NamespaceDocuments ==
  { ConfigMap("l1", "ns1", 1, FALSE,
      << Ergc("ns1", "", "", Spec_(Name_gw2, Addr_1, "", Monitors)) >>),
    ConfigMap("l3", "ns1", 2, FALSE,
      << Ergc("ns1", "", "", Spec_(Name_gw, Addr_1, "none", <<>>)) >>),
    ConfigMap("l4", "ns1", 3, FALSE,
      << Ergc("ns1", "", "", Spec_(Name_gw2, Addr_1, "none", <<>>)) >>) }

EnqueueLocal(key) ==
  /\ Len(queue) + Cardinality(delayed) < MaxQueue
  /\ events < MaxLocalEvents
  /\ queue' = Append(queue, key)
  /\ events' = events + 1
  /\ UNCHANGED <<delayed, controller>>

CreateNamespaceRoute ==
  /\ "r1" \notin DOMAIN routeCache
  /\ routeCache' = MapPut(routeCache, "r1",
                          Route("r1", "ns1", Str_a, Root, 1, "", "", "svc1", "", ""))
  /\ EnqueueLocal(rqKey("Route", "Create", routeCache'["r1"]))
  /\ UNCHANGED cmCache

CreateLocal ==
  \E cm \in NamespaceDocuments :
    /\ cm.name \notin DOMAIN cmCache
    /\ cmCache' = MapPut(cmCache, cm.name, cm)
    /\ EnqueueLocal(rqKey("ConfigMap", "Create", cm))
    /\ UNCHANGED routeCache

DeleteLocal ==
  \E n \in DOMAIN cmCache :
    /\ ~cmCache[n].global
    /\ cmCache' = MapRemove(cmCache, {n})
    /\ EnqueueLocal(rqKey("ConfigMap", "Delete", cmCache[n]))
    /\ UNCHANGED routeCache

NextLocal ==
  \/ CreateNamespaceRoute
  \/ CreateLocal
  \/ DeleteLocal
  \/ Redeliver
  \/ Worker

SpecLocal == Init /\ [][NextLocal]_vars

(***************************************************************************)
(* The work loop with TLS routes: the routes of ns1 are created with and   *)
(* updated to TLS blocks of every insecure policy, with certificates that  *)
(* are valid.                                                              *)
(***************************************************************************)
SecureRouteVersions ==
  { Route("s1", "ns1", Str_b, Path_x, 1, "edge", "None", "svc1", "valid", ""),
    Route("s1", "ns1", Str_b, Path_x, 1, "edge", "", "svc1", "valid", ""),
    Route("s1", "ns1", Str_b, Path_x, 1, "edge", "Allow", "svc1", "valid", ""),
    Route("s1", "ns1", Str_b, Path_x, 1, "", "", "svc1", "", ""),
    Route("s2", "ns1", Str_a, Root, 2, "", "", "svc2", "", ""),
    Route("s2", "ns1", Str_a, Root, 2, "", "", "svc1", "", ""),
    Route("s2", "ns1", Str_a, Root, 2, "edge", "Redirect", "svc2", "valid", ""),
    Route("s2", "ns1", Str_a, Root, 2, "reencrypt", "None", "svc2", "valid", ""),
    Route("s2", "ns1", Str_a, Root, 2, "passthrough", "", "svc2", "", "") }

CreateSecureRoute ==
  \E r \in SecureRouteVersions :
    /\ r.name \notin DOMAIN routeCache
    /\ routeCache' = MapPut(routeCache, r.name, r)
    /\ Enqueue(rqKey("Route", "Create", r))
    /\ UNCHANGED cmCache

UpdateSecureRoute ==
  \E r \in SecureRouteVersions :
    /\ r.name \in DOMAIN routeCache
    /\ routeCache[r.name] # r
    /\ routeCache' = MapPut(routeCache, r.name, r)
    /\ Enqueue(rqKey("Route", "Update", r))
    /\ UNCHANGED cmCache

NextSecure ==
  \/ CreateSecureRoute
  \/ UpdateSecureRoute
  \/ DeleteRoute
  \/ Redeliver
  \/ Worker

SpecSecure == Init /\ [][NextSecure]_vars

(***************************************************************************)
(* Functions applied by themselves: the arguments are drawn at the start,  *)
(* and a step applies the function to them.                                *)
(***************************************************************************)
\* the longest listing of routes that is sorted
MaxListing == 3

\* routes of one host with the empty path, the root path and other paths,
\* of equal and of different creation times; a route of another host and
\* one of another namespace
ListedRoutes ==
  { Route("p1", "ns1", Str_a, <<>>, 1, "", "", "svc1", "", ""),
    Route("p2", "ns1", Str_a, Root, 1, "", "", "svc1", "", ""),
    Route("p3", "ns1", Str_a, Root, 2, "", "", "svc1", "", ""),
    Route("p4", "ns1", Str_a, Path_x, 1, "", "", "svc1", "", ""),
    Route("p5", "ns1", Str_a, <<>>, 3, "", "", "svc1", "", ""),
    Route("p6", "ns1", Str_b, Root, 1, "", "", "svc1", "", ""),
    Route("p7", "ns1", Str_a, Path_x, 3, "", "", "svc1", "", ""),
    Route("p8", "ns2", Str_a, Root, 1, "", "", "svc1", "", "") }

\* the listings of the route informer: up to MaxListing routes in any order
RouteIndexListings ==
  UNION { Listings(S) : S \in { T \in SUBSET ListedRoutes :
                                  Cardinality(T) \in 1..MaxListing } }

OrderedRoutesInputs ==
  { [fn |-> "getOrderedRoutes", listing |-> l, namespace |-> "ns1"] :
      l \in RouteIndexListings }

\* the most AddRules calls a policy was built by before the call applied
MaxAddRules == 2

\* rules as createRule makes them, numbered by the caller: two rules of a
\* name differ in the host they match or in the ordinal
RuleInputs ==
  { [createRule(host \o Root, host, <<"svc1", ServicePort, "ns1">>, name)
       EXCEPT !.ordinal = ordinal] :
      name \in {"n1", "n2"}, host \in {Str_a, Str_b}, ordinal \in {0, 1} }

\* the rules handed over by one call: one rule, or two rules of different
\* names
RuleBatches ==
  { <<r>> : r \in RuleInputs }
    \cup { b \in { <<r, q>> : r \in RuleInputs, q \in RuleInputs } :
               b[1].name # b[2].name }

\* the policies built by createPolicy and up to k further AddRules calls
RECURSIVE PoliciesAfter(_)
PoliciesAfter(k) ==
  IF k = 0 THEN { createPolicy(b, <<"policy">>, DefaultPartition) : b \in RuleBatches }
  ELSE PoliciesAfter(k - 1)
         \cup { AddRules(pol, <<r>>) : pol \in PoliciesAfter(k - 1), r \in RuleInputs }

AddRulesInputs ==
  { [fn |-> "AddRules", pol |-> pol, rls |-> rls] :
      pol \in PoliciesAfter(MaxAddRules - 1), rls \in RuleBatches }

\* the virtual servers of a group, with the pool of one route
TLSConfigs ==
  { [NewResourceConfig(DefaultPartition,
                       frameRouteVSName(Name_gw, Addr_1, portStruct), portStruct,
                       Spec_(Name_gw, Addr_1, "", <<>>))
       EXCEPT !.pools = << [name |-> formatPoolName("ns1", "svc1", ServicePort),
                            serviceName |-> "svc1", serviceNamespace |-> "ns1",
                            monitorNames |-> <<>>] >>] :
      portStruct \in {HTTP, HTTPS} }

\* the TLS contexts: every termination, reference type and HTTP traffic
\* policy, with and without each credential
TLSContexts ==
  { [name |-> "r1", namespace |-> "ns1", referenceType |-> referenceType,
     hostname |-> Str_a, httpsPort |-> DEFAULT_HTTPS_PORT, ipAddress |-> Addr_1,
     termination |-> termination, httpTraffic |-> httpTraffic,
     poolPathRefs |-> << [path |-> Root,
                          poolName |-> formatPoolName("ns1", "svc1", ServicePort)] >>,
     clientSSL |-> clientSSL, serverSSL |-> serverSSL,
     hasKeyCert |-> hasKeyCert, destCA |-> destCA] :
      referenceType \in {"bigip", "secret", "certificate", "configmap"},
      termination \in {"edge", "reencrypt", "passthrough"},
      httpTraffic \in {"", "allow", "none", "redirect"},
      clientSSL \in {"", "cs"}, serverSSL \in {"", "ss"},
      hasKeyCert \in BOOLEAN, destCA \in BOOLEAN }

\* the secrets fetched before and those of the cluster
SecretStores ==
  { [sslContext |-> fetched, cluster |-> stored] :
      fetched \in { EmptyMap, [n \in {"cs"} |-> "ok"] },
      stored \in { EmptyMap,
                    [n \in {"cs"} |-> "ok"],
                    [n \in {"ss"} |-> "ok"],
                    [n \in {"cs", "ss"} |-> "ok"],
                    [n \in {"cs", "ss"} |-> IF n = "cs" THEN "bad" ELSE "ok"],
                    [n \in {"cs", "ss"} |-> IF n = "ss" THEN "bad" ELSE "ok"] } }

HandleTLSInputs ==
  { [fn |-> "handleTLS", rsCfg |-> rsCfg, tlsContext |-> ctx, secrets |-> secrets] :
      rsCfg \in TLSConfigs, ctx \in TLSContexts, secrets \in SecretStores }

\* the TLS block of an extended spec: absent, or a reference with or
\* without its profiles
TLSBlocks ==
  { NoTLS,
    [reference |-> "bigip", clientSSL |-> "clientssl", serverSSL |-> "serverssl"],
    [reference |-> "bigip", clientSSL |-> "clientssl", serverSSL |-> ""],
    [reference |-> "bigip", clientSSL |-> "", serverSSL |-> ""],
    [reference |-> "secret", clientSSL |-> "clientssl", serverSSL |-> ""] }

\* checkValidRoute on a route of the cluster, the effective spec of its
\* group, and a claim map in which the key of the route is free (0) or
\* claimed at some time
CheckValidRouteInputs ==
  { [fn |-> "checkValidRoute", route |-> r,
     extdSpec |-> [Spec_(Name_gw, Addr_1, "", <<>>) EXCEPT !.tls = t],
     hp |-> IF claimed = 0 THEN EmptyMap ELSE MapPut(EmptyMap, HostPathKey(r), claimed)] :
      r \in RouteVersions \cup SecureRouteVersions, t \in TLSBlocks, claimed \in 0..2 }

\* getGroupedRoutes on a group of the one namespace ns1, whose routes the
\* informer lists in any order, with no claim made yet
GroupedRoutesInputs ==
  { [fn |-> "getGroupedRoutes", namespaces |-> <<"ns1">>, listing |-> l,
     extdSpec |-> Spec_(Name_gw, Addr_1, "", <<>>), hp |-> EmptyMap] :
      l \in RouteIndexListings }

FunctionInputs ==
  OrderedRoutesInputs \cup AddRulesInputs \cup HandleTLSInputs
    \cup CheckValidRouteInputs \cup GroupedRoutesInputs

\* the start: the controller as constructed, and the arguments drawn
InitFunctions ==
  /\ args \in FunctionInputs
  /\ result = <<>>
  /\ Loaded(processConfigMap([ltm |-> EmptyMap, hp |-> EmptyMap, processed |-> {},
                           specMap |-> EmptyMap, inv |-> EmptyMap, base |-> NoBase,
                           panic |-> FALSE, err |-> FALSE, calls |-> <<>>],
                          InitialGlobal, FALSE, TRUE, DefaultPartition,
                          <<>>, <<>>, <<>>))

\* the function returns into result
Returned(value) ==
  /\ result = <<>>
  /\ result' = <<value>>
  /\ UNCHANGED <<args, cluster, queue, delayed, events, initState, initialSvcCount,
                 extdSpecMap, invertedNamespaceLabelMap, ltmConfig, ltmConfigCache,
                 dnsConfig, dnsConfigCache, processedHostPathMap,
                 processedNativeResources, nrInformers, baseRouteConfig, svcSeen,
                 writeback, crashed, calls, outcome>>

ApplyGetOrderedRoutes ==
  /\ args.fn = "getOrderedRoutes"
  /\ Returned(getOrderedRoutes(args.listing, args.namespace))

ApplyAddRules ==
  /\ args.fn = "AddRules"
  /\ Returned(AddRules(args.pol, args.rls))

ApplyHandleTLS ==
  /\ args.fn = "handleTLS"
  /\ Returned(handleTLS(args.rsCfg, args.tlsContext, args.secrets))

ApplyCheckValidRoute ==
  /\ args.fn = "checkValidRoute"
  /\ Returned(checkValidRoute(args.route, args.extdSpec, args.hp))

ApplyGetGroupedRoutes ==
  /\ args.fn = "getGroupedRoutes"
  /\ Returned(getGroupedRoutes(args.namespaces, args.listing, args.extdSpec, args.hp))

NextFunctions ==
  \/ ApplyGetOrderedRoutes
  \/ ApplyAddRules
  \/ ApplyHandleTLS
  \/ ApplyCheckValidRoute
  \/ ApplyGetGroupedRoutes

SpecFunctions == InitFunctions /\ [][NextFunctions]_vars

(***************************************************************************)
(* The ResourceStore by itself: its writers and the publish check, on the  *)
(* store ResourceStore.Init leaves.  The wide IPs of dnsConfig are written *)
(* by the handler of external DNS resources.                               *)
(***************************************************************************)
StoreNames == { frameRouteVSName(Name_gw, Addr_1, portStruct) : portStruct \in {HTTP, HTTPS} }

StoreConfigs(rsName) ==
  { NewResourceConfig(DefaultPartition, rsName, HTTP, Spec_(Name_gw, addr, "", <<>>)) :
      addr \in {Addr_1, Addr_2} }

Domains == {"a.com", "b.com"}

WideIP(domainName, lbMethod) == [domainName |-> domainName, lbMethod |-> lbMethod]

\* the variables no operation of the store touches
loop == <<cluster, queue, delayed, initialSvcCount, extdSpecMap,
          invertedNamespaceLabelMap, processedHostPathMap,
          processedNativeResources, nrInformers, baseRouteConfig, svcSeen,
          writeback, crashed, calls, events, applied>>

\* a write of the store: what was published is no longer known to be current
Written ==
  /\ outcome' = [outcome EXCEPT !.published = FALSE]
  /\ UNCHANGED <<loop, initState, ltmConfigCache, dnsConfigCache>>

\* rsMap[name] = rscfg
SetResourceConfig ==
  \E rsName \in StoreNames : \E cfg \in StoreConfigs(rsName) :
    /\ ltmConfig' = CommitVsMap(ltmConfig, MapPut(EmptyMap, rsName, cfg), DefaultPartition)
    /\ ltmConfig' # ltmConfig
    /\ UNCHANGED dnsConfig
    /\ Written

DeleteVirtualServer ==
  \E rsName \in StoreNames :
    /\ getVirtualServer(ltmConfig, DefaultPartition, rsName)
    /\ ltmConfig' = deleteVirtualServer(ltmConfig, DefaultPartition, rsName)
    /\ UNCHANGED dnsConfig
    /\ Written

SetWideIP ==
  \E d \in Domains, lbMethod \in {"round-robin", "ratio"} :
    /\ dnsConfig' = MapPut(dnsConfig, d, WideIP(d, lbMethod))
    /\ dnsConfig' # dnsConfig
    /\ UNCHANGED ltmConfig
    /\ Written

DeleteWideIP ==
  \E d \in DOMAIN dnsConfig :
    /\ dnsConfig' = MapRemove(dnsConfig, {d})
    /\ UNCHANGED ltmConfig
    /\ Written

\* the effect of postResourceConfigRequest, whose result is post
Posted(post) ==
  /\ outcome' = [outcome EXCEPT !.published = post.published]
  /\ initState' = post.initState
  /\ ltmConfigCache' = post.ltmConfigCache
  /\ dnsConfigCache' = post.dnsConfigCache
  /\ UNCHANGED <<loop, ltmConfig, dnsConfig>>

PublishCheck ==
  /\ ~crashed
  /\ Posted(postResourceConfigRequest(ltmConfig, ltmConfigCache, dnsConfig,
                                      dnsConfigCache, initState))

NextStore ==
  \/ SetResourceConfig
  \/ DeleteVirtualServer
  \/ SetWideIP
  \/ DeleteWideIP
  \/ PublishCheck

SpecStore == Init /\ [][NextStore]_vars

(***************************************************************************)
(* The status write-back.  checkValidRoute starts a goroutine for each     *)
(* route it rejects; the goroutine runs beside the work loop and shares    *)
(* the lock of the claim map with checkValidRoute, updateHostPathMap and   *)
(* deleteHostPathMapEntry.  A step of the work loop here is one locked     *)
(* section, a step of a task one statement that others can observe.        *)
(***************************************************************************)
\* the loop bound of updateRouteAdmitStatus
RetryLimit == 3

\* the routes the cleanup may find unmonitored
MaxUnmonitored == 1

UnmonitoredRoute == Route("u1", "ns2", Str_a, Path_y, 2, "", "", "svc1", "", "")

UnmonitoredListings ==
  {l \in {<<>>, <<UnmonitoredRoute>>, <<UnmonitoredRoute, UnmonitoredRoute>>} :
     Len(l) <= MaxUnmonitored}

\* the key eraseAllRouteAdmitStatus looks up for a route
EraseKey(route) ==
  IF route.path = <<"/">> \/ Len(route.path) = 0 THEN route.host
  ELSE route.host \o route.path

\* the spec the routes are checked against
CheckedSpec == Spec_(Name_gw, Addr_1, "", <<>>)

\* what the steps of the write-back leave alone
sequential == <<cluster, queue, delayed, initState, initialSvcCount, extdSpecMap,
                invertedNamespaceLabelMap, ltmConfig, ltmConfigCache, dnsConfig,
                dnsConfigCache, processedNativeResources, nrInformers,
                baseRouteConfig, svcSeen, calls, outcome, events, applied>>

\* Lock(): the caller goes on when the lock is free
Lock(i) == ~mutex.held /\ mutex' = HeldBy(i)

\* Unlock(): unlocking a lock that is not locked is a fatal error
Unlock ==
  /\ mutex' = Unlocked
  /\ crashed' = (crashed \/ ~mutex.held)

\* the work loop enters checkValidRoute, updateHostPathMap or
\* deleteHostPathMapEntry for a route
LockHostPath ==
  \E op \in {"checkValidRoute", "updateHostPathMap", "deleteHostPathMapEntry"},
     route \in RouteVersions :
    /\ ~crashed
    /\ section = <<>>
    /\ Lock(WorkLoop)
    /\ section' = <<[op |-> op, route |-> route]>>
    /\ UNCHANGED <<sequential, processedHostPathMap, tasks, crashed>>

\* checkValidRoute to its return: a rejection starts a write-back task
CheckRoute ==
  /\ ~crashed
  /\ section # <<>>
  /\ section[1].op = "checkValidRoute"
  /\ IF checkValidRoute(section[1].route, CheckedSpec, processedHostPathMap) = "ok"
     THEN UNCHANGED tasks
     ELSE \E i \in TaskIds :
            /\ tasks[i].pc = "none"
            /\ \A k \in TaskIds : k < i => tasks[k].pc # "none"
            /\ tasks' = [tasks EXCEPT ![i].pc = "fetch"]
  /\ Unlock
  /\ section' = <<>>
  /\ UNCHANGED <<sequential, processedHostPathMap>>

\* updateHostPathMap
ClaimHostPath ==
  /\ ~crashed
  /\ section # <<>>
  /\ section[1].op = "updateHostPathMap"
  /\ processedHostPathMap' =
       updateHostPathMap(processedHostPathMap, section[1].route.ts,
                         HostPathKey(section[1].route))
  /\ Unlock
  /\ section' = <<>>
  /\ UNCHANGED <<sequential, tasks>>

\* deleteHostPathMapEntry
ReleaseHostPath ==
  /\ ~crashed
  /\ section # <<>>
  /\ section[1].op = "deleteHostPathMapEntry"
  /\ processedHostPathMap' = deleteHostPathMapEntry(processedHostPathMap, section[1].route)
  /\ Unlock
  /\ section' = <<>>
  /\ UNCHANGED <<sequential, tasks>>

\* a step of task i that takes no lock and writes no shared map
TaskStep(i, t) ==
  /\ tasks' = [tasks EXCEPT ![i] = t]
  /\ UNCHANGED <<sequential, processedHostPathMap, mutex, section, crashed>>

\* updateRouteAdmitStatus: the head of an iteration; the task returns when
\* the route is gone or has the status already
TaskFetch ==
  \E i \in TaskIds, found \in BOOLEAN, admitted \in BOOLEAN :
    /\ ~crashed
    /\ tasks[i].pc = "fetch"
    /\ tasks[i].retryCount < RetryLimit
    /\ TaskStep(i, [tasks[i] EXCEPT
                      !.pc = IF found /\ ~admitted THEN "update" ELSE "done"])

\* UpdateStatus: the task returns when it succeeds; the third failure
\* leads to eraseAllRouteAdmitStatus
TaskUpdate ==
  \E i \in TaskIds, ok \in BOOLEAN :
    /\ ~crashed
    /\ tasks[i].pc = "update"
    /\ TaskStep(i, [tasks[i] EXCEPT
                      !.attempts = @ + 1,
                      !.retryCount = IF ok THEN @ ELSE @ + 1,
                      !.passes = IF ~ok /\ tasks[i].retryCount + 1 >= RetryLimit
                                 THEN @ + 1 ELSE @,
                      !.pc = IF ok THEN "done"
                             ELSE IF tasks[i].retryCount + 1 < RetryLimit THEN "fetch"
                             ELSE "list"])

\* eraseAllRouteAdmitStatus: the listing of the unmonitored routes
TaskList ==
  \E i \in TaskIds, err \in BOOLEAN, listing \in UnmonitoredListings :
    /\ ~crashed
    /\ tasks[i].pc = "list"
    /\ TaskStep(i, [tasks[i] EXCEPT
                      !.pc = IF err THEN "done" ELSE "lock",
                      !.pending = IF err THEN <<>> ELSE listing])

\* the Lock() before the loop (line 1211) and the Lock() in it (line 1223)
TaskLock ==
  \E i \in TaskIds :
    /\ ~crashed
    /\ tasks[i].pc \in {"lock", "relock"}
    /\ Lock(i)
    /\ tasks' = [tasks EXCEPT ![i].pc = IF @ = "lock" THEN "loop" ELSE "erase"]
    /\ UNCHANGED <<sequential, processedHostPathMap, section, crashed>>

\* the head of the loop over the unmonitored routes, up to the Lock() in
\* it; after the last route the function returns
TaskLoop ==
  \E i \in TaskIds :
    /\ ~crashed
    /\ tasks[i].pc = "loop"
    /\ TaskStep(i, [tasks[i] EXCEPT
                      !.pc = IF tasks[i].pending = <<>> THEN "return" ELSE "relock"])

\* the Unlock() in the loop, after the claim of the route was deleted, and
\* the deferred Unlock() at the return
TaskUnlock ==
  \E i \in TaskIds :
    /\ ~crashed
    /\ tasks[i].pc \in {"erase", "return"}
    /\ Unlock
    /\ IF tasks[i].pc = "return"
       THEN /\ tasks' = [tasks EXCEPT ![i].pc = "done"]
            /\ UNCHANGED processedHostPathMap
       ELSE /\ tasks' = [tasks EXCEPT ![i].pc = "loop", ![i].pending = Tail(@)]
            /\ processedHostPathMap' =
                 MapRemove(processedHostPathMap,
                           {k \in DOMAIN processedHostPathMap :
                              /\ k = EraseKey(Head(tasks[i].pending))
                              /\ processedHostPathMap[k] = Head(tasks[i].pending).ts})
    /\ UNCHANGED <<sequential, section>>

NextStatus ==
  \/ LockHostPath
  \/ CheckRoute
  \/ ClaimHostPath
  \/ ReleaseHostPath
  \/ TaskFetch
  \/ TaskUpdate
  \/ TaskList
  \/ TaskLock
  \/ TaskLoop
  \/ TaskUnlock

SpecStatus == Init /\ [][NextStatus]_vars

(***************************************************************************)
(* Vocabulary of the properties                                            *)
(***************************************************************************)
LiveRoutes == MapValues(routeCache)

\* every virtual server config of the store, with its partition and name
VirtualServers(ltm) ==
  { [partition |-> p, name |-> n, cfg |-> ltm[p][n]] :
      <<p, n>> \in UNION { {p} \X DOMAIN ltm[p] : p \in DOMAIN ltm } }

\* the route is among the routes some virtual server config was built from
Served(ltm, route) ==
  \E vs \in VirtualServers(ltm) : <<route.ns, route.name>> \in vs.cfg.baseResources

\* the worker has drained every key and nothing waits for a retry
Quiescent == queue = <<>> /\ delayed = {} /\ ~crashed /\ ~initState

\* the step is a turn of the worker loop that ran a handler to its end
Handled(kind, event) ==
  /\ queue # <<>>
  /\ queue' = Tail(queue)
  /\ Head(queue).kind = kind
  /\ Head(queue).event = event
  /\ ~initState
  /\ ~crashed'

(***************************************************************************)
(* C1.  Of the live routes that share a host-path key, whatever their      *)
(* namespaces and groups, exactly one is admitted once they have been      *)
(* resolved, the one created strictly first; a route that has an older     *)
(* live competitor is rejected, so no virtual server is built from it.     *)
(***************************************************************************)
C1_OneClaimantPerKey ==
  Quiescent =>
    \A x, y \in LiveRoutes :
      (HostPathKey(x) = HostPathKey(y) /\ x.ts < y.ts) => ~Served(ltmConfig, y)

(***************************************************************************)
(* C2.  When the Delete event of a route R1 that holds the claim of a key  *)
(* is processed, a newer live route R2 of the same key that was rejected   *)
(* for it is admitted and a virtual server is built from it.  R2 is the    *)
(* only route left, so nothing else can fail its build, and no other key   *)
(* is pending, so R2 was resolved and rejected before.                     *)
(***************************************************************************)
C2_DeleteReadmits ==
  [][ Handled("Route", "Delete") =>
        \A y \in LiveRoutes :
          LET d == Head(queue).rsc
          IN  ( /\ LiveRoutes = {y}
                /\ Tail(queue) = <<>> /\ delayed = {}
                /\ HostPathKey(y) = HostPathKey(d)
                /\ d.ts < y.ts
                /\ HostPathKey(d) \in DOMAIN processedHostPathMap
                /\ processedHostPathMap[HostPathKey(d)] = d.ts
                /\ ~Served(ltmConfig, y) )
              => Served(ltmConfig', y) ]_vars

(***************************************************************************)
(* C3.  A processRoutes call whose build fails on rule synthesis or on TLS *)
(* resolution leaves the ConfigStore as it found it: no virtual server     *)
(* config is added, replaced or deleted.                                   *)
(***************************************************************************)
C3_FailedBuildLeavesStore ==
  \A i \in 1..Len(calls) :
     calls[i].processingError =>
       VirtualServers(calls[i].post) = VirtualServers(calls[i].pre)

(***************************************************************************)
(* C4.  A Route event whose group build fails with a resolution error is   *)
(* added back to the queue rate limited, not forgotten.                    *)
(***************************************************************************)
C4_FailedBuildRetried ==
  ( /\ outcome.key.kind = "Route"
    /\ \E i \in 1..Len(calls) : calls[i].processingError )
  => outcome.result = "AddRateLimited"

(***************************************************************************)
(* C5.  A group build that admits a reencrypt route whose insecure policy  *)
(* is Allow fails, and the call commits neither the HTTP nor the HTTPS     *)
(* virtual server: the store is left as it was.                            *)
(***************************************************************************)
ReencryptAllow(route) == route.tls = "reencrypt" /\ route.insecure = "Allow"

BuildOfReencryptAllow(call) ==
  /\ ~call.triggerDelete
  /\ ~call.err
  /\ \E j \in 1..Len(call.accepted) : ReencryptAllow(call.accepted[j])

C5_ReencryptAllowFailsClosed ==
  \A i \in 1..Len(calls) :
     BuildOfReencryptAllow(calls[i]) =>
       /\ calls[i].processingError
       /\ calls[i].committed = {}
       /\ calls[i].post = calls[i].pre

C5_Witness ==
  \E i \in 1..Len(calls) :
     /\ BuildOfReencryptAllow(calls[i])
     /\ calls[i].processingError
     /\ VirtualServers(calls[i].pre) # {}

(***************************************************************************)
(* C6.  In every forward policy of a stored virtual server config the      *)
(* ordinals of the rules, in rule order, are 0, 1, 2, ..., and every rule  *)
(* of an exact host has a smaller ordinal than every rule of a wildcard    *)
(* host.                                                                   *)
(***************************************************************************)
IsWildcardRule(rule) == HasPrefix(rule.fullURI, <<"*", ".">>)

C6_OrdinalsIncrease ==
  \A vs \in VirtualServers(ltmConfig) :
    \A p \in 1..Len(vs.cfg.policies) :
      LET rules == vs.cfg.policies[p].rules
      IN  /\ rules # <<>> => rules[1].ordinal = 0
          /\ \A k \in 1..(Len(rules) - 1) : rules[k].ordinal < rules[k + 1].ordinal
          /\ \A k, l \in 1..Len(rules) :
               (~IsWildcardRule(rules[k]) /\ IsWildcardRule(rules[l]))
                 => rules[k].ordinal < rules[l].ordinal

(***************************************************************************)
(* C7.  processRoutes run twice in a row for a group, on the same live     *)
(* routes listed in the same order, with the same services and the same    *)
(* spec map, leaves after the second run the ConfigStore of the first run. *)
(***************************************************************************)
RunAgain(routeGroup, listing, first) ==
  [first |-> first,
   second |-> processRoutes([ltm |-> first.ltm, hp |-> first.hp,
                             processed |-> first.processed, panic |-> FALSE],
                            extdSpecMap, routeGroup, FALSE, listing)]

RunTwice(routeGroup, listing) ==
  RunAgain(routeGroup, listing,
           processRoutes([ltm |-> ltmConfig, hp |-> processedHostPathMap,
                          processed |-> processedNativeResources, panic |-> FALSE],
                         extdSpecMap, routeGroup, FALSE, listing))

SameStore(r) == (~r.first.panic /\ ~r.second.panic) => r.second.ltm = r.first.ltm

C7_RebuildIsIdempotent ==
  ~crashed =>
    \A routeGroup \in DOMAIN extdSpecMap : \A listing \in RouteListings :
      SameStore(RunTwice(routeGroup, listing))

(***************************************************************************)
(* C8.  In every virtual server config a processRoutes call commits, each  *)
(* monitor is referenced by a pool of the config, and the monitors are the *)
(* monitors of the spec that a pool references, in the order of the spec:  *)
(* a monitor of the spec that no pool matched is absent.                   *)
(***************************************************************************)
MonitorNamesOf(monitors) == [k \in 1..Len(monitors) |-> monitors[k].name]

Referenced(cfg, monitorName) ==
  \E k \in 1..Len(cfg.pools) :
     \E m \in 1..Len(cfg.pools[k].monitorNames) :
        cfg.pools[k].monitorNames[m] = monitorName

SpecMonitorNames(call, rsName) ==
  MonitorNamesOf(
    handleRouteGroupExtendedSpec(
      NewResourceConfig(call.partition, rsName, HTTP, call.extdSpec),
      call.extdSpec).monitors)

C8_MonitorsInUse ==
  \A i \in 1..Len(calls) : \A rsName \in calls[i].committed :
     LET cfg == calls[i].post[calls[i].partition][rsName]
     IN  /\ \A k \in 1..Len(cfg.monitors) : Referenced(cfg, cfg.monitors[k].name)
         /\ MonitorNamesOf(cfg.monitors) =
              SelectSeq(SpecMonitorNames(calls[i], rsName),
                        LAMBDA n : Referenced(cfg, n))

C8_Witness ==
  \E i \in 1..Len(calls) : \E rsName \in calls[i].committed :
     LET cfg == calls[i].post[calls[i].partition][rsName]
     IN  /\ Len(cfg.monitors) = 2
         /\ Len(SpecMonitorNames(calls[i], rsName)) = 3
         /\ cfg = ltmConfig[calls[i].partition][rsName]

(***************************************************************************)
(* C9.  The effective spec of a route group is its local spec when the     *)
(* entry permits override and holds a local spec, its global spec in every *)
(* other case, and absent when the group has no entry.                     *)
(***************************************************************************)
AllGroups == RouteGroups \cup {"ns3"}

C9_EffectiveSpec ==
  \A routeGroup \in AllGroups :
    LET es == getExtendedRouteSpec(extdSpecMap, routeGroup).spec
    IN  /\ routeGroup \notin DOMAIN extdSpecMap => es.nil
        /\ routeGroup \in DOMAIN extdSpecMap =>
             LET e == extdSpecMap[routeGroup]
             IN  /\ (e.override /\ ~e.local.nil) => es = e.local
                 /\ ~(e.override /\ ~e.local.nil) => es = e.global

C9_Witness ==
  /\ \E g \in DOMAIN extdSpecMap :
       /\ extdSpecMap[g].override
       /\ ~extdSpecMap[g].local.nil
       /\ extdSpecMap[g].local # extdSpecMap[g].global
       /\ calls # <<>>
       /\ calls[Len(calls)].routeGroup = g
       /\ calls[Len(calls)].extdSpec = extdSpecMap[g].local
  /\ \E g \in DOMAIN extdSpecMap :
       ~extdSpecMap[g].override /\ ~extdSpecMap[g].local.nil

(***************************************************************************)
(* C10.  A group that permits override has virtual servers under the name  *)
(* of its global spec and no local spec yet.  The handler of a local       *)
(* document of another virtual-server name first removes every virtual     *)
(* server under the global name, then builds the group with the local      *)
(* spec; afterwards the store holds none under the global name, and, when  *)
(* that build succeeds for the routes it admits, the virtual servers it    *)
(* committed are there under the local name.                               *)
(***************************************************************************)
GroupNames(spec) ==
  { frameRouteVSName(spec.vserverName, spec.vserverAddr, portStruct) :
      portStruct \in {HTTP, HTTPS} }

UnderName(ltm, partition, spec) ==
  { n \in GroupNames(spec) : partition \in DOMAIN ltm /\ n \in DOMAIN ltm[partition] }

\* the step handles a local document that renames the virtual servers of
\* its group, which were built under the global name
LocalRename ==
  /\ queue # <<>>
  /\ queue' = Tail(queue)
  /\ ~initState
  /\ ~crashed'
  /\ Head(queue).kind = "ConfigMap"
  /\ Head(queue).event # "Delete"
  /\ ~Head(queue).rsc.global
  /\ LET ergc == Head(queue).rsc.entries[1]
     IN  /\ ergc.namespace = Head(queue).rsc.ns
         /\ ergc.namespace \in DOMAIN extdSpecMap
         /\ LET e == extdSpecMap[ergc.namespace]
            IN  /\ e.override
                /\ ~e.global.nil
                /\ e.local.nil
                /\ e.global.vserverName # ergc.spec.vserverName
                /\ UnderName(ltmConfig, e.partition, e.global) # {}

TeardownThenBuild ==
  LET ergc == Head(queue).rsc.entries[1]
      e == extdSpecMap[ergc.namespace]
  IN  /\ Len(calls') = 2
      /\ calls'[1].triggerDelete
      /\ calls'[1].extdSpec = e.global
      /\ UnderName(calls'[1].post, e.partition, e.global) = {}
      /\ ~calls'[2].triggerDelete
      /\ calls'[2].extdSpec = ergc.spec
      /\ calls'[2].pre = calls'[1].post
      /\ ltmConfig' = calls'[2].post
      /\ UnderName(ltmConfig', e.partition, e.global) = {}

C10_LocalNameReplacesGlobal ==
  [][ LocalRename =>
        /\ TeardownThenBuild
        /\ LET ergc == Head(queue).rsc.entries[1]
               e == extdSpecMap[ergc.namespace]
           IN  (~calls'[2].processingError /\ calls'[2].accepted # <<>>) =>
                 /\ calls'[2].committed # {}
                 /\ UnderName(ltmConfig', e.partition, ergc.spec) = calls'[2].committed
     ]_vars

\* the claim as it is worded: the virtual servers are created under the
\* local name whenever the local document renames the group
C10_AlwaysCreated ==
  [][ LocalRename =>
        /\ TeardownThenBuild
        /\ LET ergc == Head(queue).rsc.entries[1]
               e == extdSpecMap[ergc.namespace]
           IN  UnderName(ltmConfig', e.partition, ergc.spec) # {}
     ]_vars

C10_Witness ==
  /\ Len(calls) = 2
  /\ outcome.key.kind = "ConfigMap"
  /\ calls[1].triggerDelete
  /\ calls[1].extdSpec.vserverName = Name_gw
  /\ UnderName(calls[1].pre, calls[1].partition, calls[1].extdSpec) # {}
  /\ calls[2].extdSpec.vserverName = Name_gw2
  /\ calls[2].committed # {}
  /\ UnderName(ltmConfig, calls[2].partition, calls[2].extdSpec) = calls[2].committed

(***************************************************************************)
(* C11.  The handler of an Update event of a local document that changes   *)
(* the spec and keeps the virtual-server name of the local spec in force   *)
(* makes exactly one processRoutes call for the group, a build with the    *)
(* new spec and no teardown, when the group permits override; when it does *)
(* not, the handler stores the local spec, makes no processRoutes call and *)
(* leaves the ConfigStore alone.                                           *)
(***************************************************************************)
\* the step handles an Update event of a local document whose group holds
\* a global spec and a local spec of the same virtual-server name
LocalUpdateKeepsName ==
  /\ queue # <<>>
  /\ queue' = Tail(queue)
  /\ ~initState
  /\ ~crashed'
  /\ Head(queue).kind = "ConfigMap"
  /\ Head(queue).event = "Update"
  /\ ~Head(queue).rsc.global
  /\ LET ergc == Head(queue).rsc.entries[1]
     IN  /\ ergc.namespace = Head(queue).rsc.ns
         /\ ergc.namespace \in DOMAIN invertedNamespaceLabelMap
         /\ ergc.namespace \in DOMAIN extdSpecMap
         /\ LET e == extdSpecMap[ergc.namespace]
            IN  /\ ~e.global.nil
                /\ ~e.local.nil
                /\ e.local # ergc.spec
                /\ e.local.vserverName = ergc.spec.vserverName

\* the handler made one call, a build of the group with the new spec
OneRebuildInPlace ==
  LET ergc == Head(queue).rsc.entries[1]
  IN  /\ Len(calls') = 1
      /\ ~calls'[1].triggerDelete
      /\ calls'[1].routeGroup = invertedNamespaceLabelMap[ergc.namespace]
      /\ calls'[1].extdSpec = ergc.spec

C11_UpdateInPlace ==
  [][ LocalUpdateKeepsName =>
        LET ergc == Head(queue).rsc.entries[1]
        IN  IF extdSpecMap[ergc.namespace].override
            THEN OneRebuildInPlace
            ELSE /\ calls' = <<>>
                 /\ extdSpecMap'[ergc.namespace].local = ergc.spec
                 /\ ltmConfig' = ltmConfig
     ]_vars

\* the claim as it is worded: with override false the update rebuilds the
\* group once, without a teardown
C11_OverrideFalseRebuilds ==
  [][ ( /\ LocalUpdateKeepsName
        /\ ~extdSpecMap[Head(queue).rsc.entries[1].namespace].override )
      => OneRebuildInPlace ]_vars

\* an update of the local document of a group that permits override was
\* handled by one build, under the same name, of the routes of the group
C11_Witness ==
  /\ outcome.key.kind = "ConfigMap"
  /\ outcome.key.event = "Update"
  /\ ~outcome.key.rsc.global
  /\ calls # <<>>
  /\ calls[1].accepted # <<>>
  /\ calls[1].pre # EmptyMap
  /\ outcome.key.rsc.ns \in DOMAIN extdSpecMap
  /\ extdSpecMap[outcome.key.rsc.ns].override
  /\ Len(calls) = 1
  /\ ~calls[1].triggerDelete
  /\ calls[1].extdSpec = outcome.key.rsc.entries[1].spec
  /\ calls[1].extdSpec.vserverName = Name_gw

(***************************************************************************)
(* C12.  A config is published only by the turn of the worker loop that    *)
(* empties the queue, and only when the ConfigStore that turn leaves       *)
(* differs from the last-published snapshot; the snapshot changes in no    *)
(* other step.  While keys are still queued nothing is published.          *)
(***************************************************************************)
\* the step is a turn of the worker loop
WorkerTurn == queue # <<>> /\ queue' = Tail(queue)

C12_PublishWhenDrained ==
  [][ /\ (WorkerTurn /\ outcome'.published) =>
           /\ queue' = <<>>
           /\ isConfigUpdated(ltmConfig', ltmConfigCache, dnsConfig', dnsConfigCache)
           /\ ltmConfigCache' = ltmConfig'
      /\ (ltmConfigCache' # ltmConfigCache \/ dnsConfigCache' # dnsConfigCache) =>
           (WorkerTurn /\ outcome'.published)
     ]_vars

\* the virtual servers of two groups, built by the handlers of two keys,
\* are in the snapshot after the publish of the turn that emptied the queue
C12_Witness ==
  /\ outcome.published
  /\ queue = <<>>
  /\ ltmConfigCache = ltmConfig
  /\ \E x, y \in VirtualServers(ltmConfig) :
        \E rx \in x.cfg.baseResources, ry \in y.cfg.baseResources : rx[1] # ry[1]

(***************************************************************************)
(* C13.  Right after a publish the last-published snapshot equals the      *)
(* ConfigStore, in its LTM part and in its DNS part, so that a publish     *)
(* check made before anything else is written publishes nothing.           *)
(***************************************************************************)
C13_SnapshotIsCurrent ==
  outcome.published =>
    /\ ltmConfigCache = ltmConfig
    /\ dnsConfigCache = dnsConfig
    /\ ~postResourceConfigRequest(ltmConfig, ltmConfigCache, dnsConfig, dnsConfigCache,
                                  initState).published

(***************************************************************************)
(* C14: from start-up until the known count of pre-existing Service events *)
(* has been processed, a dequeued Route, ConfigMap or Endpoints event is   *)
(* not dispatched: it is re-enqueued with rate limiting and the            *)
(* ConfigStore, the host-path claim map and the extended-spec map are      *)
(* left as they were.                                                      *)
(***************************************************************************)
ServicesPending == svcSeen < InitialServices

GatedKinds == {"Route", "ConfigMap", "Endpoints"}

ReEnqueuedUntouched ==
  /\ delayed' = delayed \cup {Head(queue)}
  /\ outcome'.result = "AddRateLimited"
  /\ ~outcome'.published
  /\ ltmConfig' = ltmConfig
  /\ processedHostPathMap' = processedHostPathMap
  /\ extdSpecMap' = extdSpecMap

C14_GatedUntilServicesProcessed ==
  [][(WorkerTurn /\ ServicesPending /\ Head(queue).kind \in GatedKinds)
       => ReEnqueuedUntouched]_vars

(***************************************************************************)
(* C15: in every controller state an event whose kind is none of Route,    *)
(* Service, Endpoints, ConfigMap and Namespace is dropped: it is not       *)
(* re-enqueued and no reconciliation state changes.                        *)
(***************************************************************************)
KnownKinds == {"Route", "Service", "Endpoints", "ConfigMap", "Namespace"}

Dropped ==
  /\ delayed' = delayed
  /\ outcome'.result = "Forget"
  /\ ltmConfig' = ltmConfig
  /\ processedHostPathMap' = processedHostPathMap
  /\ processedNativeResources' = processedNativeResources
  /\ extdSpecMap' = extdSpecMap
  /\ invertedNamespaceLabelMap' = invertedNamespaceLabelMap

C15_UnknownKindDropped ==
  [][(WorkerTurn /\ Head(queue).kind \notin KnownKinds) => Dropped]_vars

(***************************************************************************)
(* C16: once the events have been processed, every entry (key -> time) of  *)
(* the host-path claim map belongs to a live route that has that claim key *)
(* and that creation timestamp.                                            *)
(***************************************************************************)
ClaimOwners(key, ts) ==
  {r \in LiveRoutes : HostPathKey(r) = key /\ r.ts = ts}

C16_ClaimsBelongToLiveRoutes ==
  Quiescent =>
    \A key \in DOMAIN processedHostPathMap :
      ClaimOwners(key, processedHostPathMap[key]) # {}

(***************************************************************************)
(* C17: a processRoutes call in which checkValidRoute rejected a route     *)
(* still builds the group.  The call returns no error; the virtual server  *)
(* configs it stores hold nothing of the rejected route (no provenance     *)
(* entry, and every pool, host and rule comes from an accepted route);     *)
(* and when no accepted route fails its own build, the virtual servers are *)
(* stored, every accepted route has its pool in one of them, is in the     *)
(* provenance of each, and is in the set of processed resources.           *)
(***************************************************************************)
StoredConfigs(c) == {c.post[c.partition][n] : n \in c.committed}

AcceptedRoutes(c) == {c.accepted[i] : i \in 1..Len(c.accepted)}

RejectedNames(c) == {c.rejected[i].name : i \in 1..Len(c.rejected)}

PoolOf(r) == formatPoolName(r.ns, r.to, ServicePort)

RuleNames(cfg) ==
  UNION { {cfg.policies[i].rules[j].name : j \in 1..Len(cfg.policies[i].rules)} :
            i \in 1..Len(cfg.policies) }

\* the build of the route as the only route of the group
FailsAlone(r, c) ==
  BuildPorts(getVirtualPortsForRoutes(<<r>>),
             [ltm |-> c.pre, processed |-> {}, vsMap |-> EmptyMap,
              processingError |-> FALSE],
             <<r>>, c.extdSpec, c.partition).processingError

NothingOfRejected(c, cfg) ==
  /\ \A n \in RejectedNames(c) : <<c.routeGroup, n>> \notin cfg.baseResources
  /\ cfg.baseResources \subseteq {<<r.ns, r.name>> : r \in AcceptedRoutes(c)}
  /\ \A i \in 1..Len(cfg.pools) :
       cfg.pools[i].name \in {PoolOf(r) : r \in AcceptedRoutes(c)}
  /\ \A i \in 1..Len(cfg.hosts) :
       cfg.hosts[i] \in {r.host : r \in AcceptedRoutes(c)}
  /\ RuleNames(cfg) \subseteq
       {formatVirtualServerRuleName(r.host, r.ns, r.path, PoolOf(r)) :
          r \in AcceptedRoutes(c)}

SiblingsBuilt(c) ==
  /\ ~c.processingError
  /\ c.committed # {}
  /\ \A r \in AcceptedRoutes(c) :
       /\ \E cfg \in StoredConfigs(c) :
            \E i \in 1..Len(cfg.pools) : cfg.pools[i].name = PoolOf(r)
       /\ \A cfg \in StoredConfigs(c) : <<r.ns, r.name>> \in cfg.baseResources
       /\ <<r.ns, r.name>> \in processedNativeResources

RejectionCall(c) ==
  c.rejected # <<>> /\ c.accepted # <<>> /\ ~c.triggerDelete

FailsValidation(cm) ==
  \/ ~cm.valid
  \/ \E i \in 1..Len(cm.entries) : cm.entries[i].allowOverride \notin {"true", "false"}

GlobalHandled ==
  /\ WorkerTurn
  /\ ~initState
  /\ Head(queue).kind = "ConfigMap"
  /\ Head(queue).rsc.global

StoreUnchanged ==
  /\ extdSpecMap' = extdSpecMap
  /\ baseRouteConfig' = baseRouteConfig
  /\ invertedNamespaceLabelMap' = invertedNamespaceLabelMap
  /\ ltmConfig' = ltmConfig

C18_InvalidGlobalLeavesStore ==
  [][(GlobalHandled /\ FailsValidation(Head(queue).rsc)) => StoreUnchanged]_vars

(***************************************************************************)
(* C19: a global document in which some entries select by namespace and   *)
(* others by namespaceLabel is rejected; handled as a ConfigMap event of   *)
(* the work queue it is not applied to the extended-spec map.              *)
(***************************************************************************)
Mixed(cm) ==
  /\ \E i \in 1..Len(cm.entries) : cm.entries[i].namespace # ""
  /\ \E i \in 1..Len(cm.entries) : cm.entries[i].namespaceLabel # ""

C19_MixedGlobalNotApplied ==
  [][(GlobalHandled /\ Mixed(Head(queue).rsc))
       => (extdSpecMap' = extdSpecMap
           /\ invertedNamespaceLabelMap' = invertedNamespaceLabelMap)]_vars

(***************************************************************************)
(* C20: a status write-back task makes at most 3 update attempts and at    *)
(* most one cleanup pass, and ends with the lock of the claim map          *)
(* released: a task never holds the lock after it ended, and never waits   *)
(* for the lock while it holds it, which would block the task and every    *)
(* later checkValidRoute, updateHostPathMap and deleteHostPathMapEntry of  *)
(* the work loop for ever.                                                 *)
(***************************************************************************)
WaitsForLock(i) == tasks[i].pc \in {"lock", "relock"}

C20_WriteBackReleasesLock ==
  \A i \in TaskIds :
    /\ tasks[i].attempts <= RetryLimit
    /\ tasks[i].passes <= 1
    /\ tasks[i].pc = "done" => mutex # HeldBy(i)
    /\ ~(WaitsForLock(i) /\ mutex = HeldBy(i))

(***************************************************************************)
(* C21: when a revision of the global document changes the virtual-server  *)
(* name, the override flag or the partition of a group, processConfigMap   *)
(* first removes the virtual servers built under the previous effective    *)
(* spec of the group (previous partition and name), and only then stores   *)
(* the new spec and rebuilds the group; afterwards the store holds a       *)
(* virtual server of the previous partition and name only when a rebuild   *)
(* of the revision committed it there again.                               *)
(***************************************************************************)
\* the partition an entry of the global document gives its group
PartitionOf(ergc) ==
  IF ergc.bigIpPartition # "" THEN ergc.bigIpPartition ELSE DefaultPartition

\* the entry of the revision changes the identity of its cached group
IdentityChanged(ergc) ==
  /\ RouteGroupOf(ergc) \in DOMAIN extdSpecMap
  /\ LET e == extdSpecMap[RouteGroupOf(ergc)]
     IN  \/ e.global.vserverName # ergc.spec.vserverName
         \/ e.override # (ergc.allowOverride = "true")
         \/ e.partition # PartitionOf(ergc)

\* the step handles a revision of the global document that is applied
GlobalRevised ==
  /\ GlobalHandled
  /\ Head(queue).event # "Delete"
  /\ ~crashed'
  /\ ~FailsValidation(Head(queue).rsc)
  /\ ~Mixed(Head(queue).rsc)
  /\ \A k \in DOMAIN extdSpecMap : ~extdSpecMap[k].global.nil

\* call i tears the group of ergc down under its previous effective spec,
\* and call i + 1 rebuilds it with the new spec stored
TornDownThenRebuilt(ergc, i) ==
  LET k == RouteGroupOf(ergc)
      prev == getExtendedRouteSpec(extdSpecMap, k)
      new == getExtendedRouteSpec(extdSpecMap', k)
  IN  /\ i + 1 <= Len(calls')
      /\ calls'[i].routeGroup = k
      /\ calls'[i].triggerDelete
      /\ calls'[i].extdSpec = prev.spec
      /\ calls'[i].partition = prev.partition
      /\ UnderName(calls'[i].post, prev.partition, prev.spec) = {}
      /\ calls'[i + 1].routeGroup = k
      /\ ~calls'[i + 1].triggerDelete
      /\ calls'[i + 1].pre = calls'[i].post
      /\ calls'[i + 1].extdSpec = new.spec
      /\ calls'[i + 1].partition = new.partition
      /\ extdSpecMap'[k].global = ergc.spec
      /\ extdSpecMap'[k].override = (ergc.allowOverride = "true")
      /\ extdSpecMap'[k].partition = PartitionOf(ergc)

\* the names the rebuilds of the handler committed in a partition
Recommitted(partition) ==
  UNION { calls'[j].committed :
            j \in { n \in 1..Len(calls') :
                      ~calls'[n].triggerDelete /\ calls'[n].partition = partition } }

C21_RevisionReplacesIdentity ==
  [][ GlobalRevised =>
        \A n \in 1..Len(Head(queue).rsc.entries) :
          LET ergc == Head(queue).rsc.entries[n]
              prev == getExtendedRouteSpec(extdSpecMap, RouteGroupOf(ergc))
          IN  IdentityChanged(ergc) =>
                /\ \E i \in 1..Len(calls') : TornDownThenRebuilt(ergc, i)
                /\ UnderName(ltmConfig', prev.partition, prev.spec)
                     \subseteq Recommitted(prev.partition)
    ]_vars

\* as stated: afterwards no virtual server of the previous identity remains
C21_NoPreviousIdentityRemains ==
  [][ GlobalRevised =>
        \A n \in 1..Len(Head(queue).rsc.entries) :
          LET ergc == Head(queue).rsc.entries[n]
              prev == getExtendedRouteSpec(extdSpecMap, RouteGroupOf(ergc))
          IN  IdentityChanged(ergc) =>
                UnderName(ltmConfig', prev.partition, prev.spec) = {}
    ]_vars

\* a revision that renamed ns1 and moved it to another partition has been
\* handled: the virtual servers of ns1 stand under the new name in the new
\* partition and none is left under the old one
C21_Witness ==
  /\ Len(calls) >= 2
  /\ \E i \in 1..(Len(calls) - 1) :
       /\ calls[i].routeGroup = "ns1"
       /\ calls[i].triggerDelete
       /\ calls[i].partition = DefaultPartition
       /\ calls[i].extdSpec.vserverName = Name_gw
       /\ UnderName(calls[i].pre, DefaultPartition, calls[i].extdSpec) # {}
       /\ calls[i + 1].routeGroup = "ns1"
       /\ ~calls[i + 1].triggerDelete
       /\ calls[i + 1].partition = "p2"
       /\ calls[i + 1].extdSpec.vserverName = Name_gw2
       /\ calls[i + 1].committed # {}
       /\ UnderName(ltmConfig, "p2", calls[i + 1].extdSpec) = calls[i + 1].committed
       /\ UnderName(ltmConfig, DefaultPartition, calls[i].extdSpec) = {}

(***************************************************************************)
(* C22: getOperationalExtendedConfigMapSpecs classifies a group as updated *)
(* exactly when its key is in the cached and in the new map, its           *)
(* virtual-server name, override flag and partition are the same, and      *)
(* either the entries differ in another field or the cached global spec is *)
(* flagged cipher-dependent and the TLS cipher configuration changed; an   *)
(* updated group is rebuilt without a teardown, and a group whose entry    *)
(* and cipher configuration are both unchanged is not rebuilt.             *)
(***************************************************************************)
\* the new map: the parse of the revision at the head of the queue
NewSpecMap ==
  ParseGlobal(Head(queue).rsc.entries, DefaultPartition,
              [map |-> EmptyMap, inv |-> invertedNamespaceLabelMap, err |-> FALSE]).map

\* the groups the comparison of the cached and the new map lists as updated
UpdatedGroups ==
  LET ops == getOperationalExtendedConfigMapSpecs(
               extdSpecMap, NewSpecMap, FALSE,
               CHOOSE o \in Listings(DOMAIN extdSpecMap \cup DOMAIN NewSpecMap) : TRUE)
  IN  { ops.updated[i] : i \in 1..Len(ops.updated) }

\* the revision gives another TLS cipher configuration than the one in use
CipherChanged ==
  readBaseRouteConfigFromGlobalCM(Head(queue).rsc.base) # baseRouteConfig

\* the group is in both maps with the same name, override flag and partition
SameIdentity(k) ==
  /\ k \in DOMAIN extdSpecMap
  /\ k \in DOMAIN NewSpecMap
  /\ extdSpecMap[k].global.vserverName = NewSpecMap[k].global.vserverName
  /\ extdSpecMap[k].override = NewSpecMap[k].override
  /\ extdSpecMap[k].partition = NewSpecMap[k].partition

\* the step compares the cached map with a revision of the global document
GlobalCompared ==
  /\ GlobalHandled
  /\ Head(queue).event # "Delete"
  /\ ~FailsValidation(Head(queue).rsc)
  /\ ~Mixed(Head(queue).rsc)
  /\ \A k \in DOMAIN extdSpecMap : ~extdSpecMap[k].global.nil

CallsFor(k) == { i \in 1..Len(calls') : calls'[i].routeGroup = k }

C22_UpdatedClassification ==
  [][ GlobalCompared =>
        \A k \in DOMAIN extdSpecMap \cup DOMAIN NewSpecMap :
          /\ k \in UpdatedGroups <=>
               /\ SameIdentity(k)
               /\ \/ extdSpecMap[k] # NewSpecMap[k]
                  \/ extdSpecMap[k].global.dependsOnTLSCipher /\ CipherChanged
          /\ (k \in UpdatedGroups /\ ~crashed') =>
               /\ CallsFor(k) # {}
               /\ \A i \in CallsFor(k) : ~calls'[i].triggerDelete
          /\ (SameIdentity(k) /\ extdSpecMap[k] = NewSpecMap[k] /\ ~CipherChanged /\ ~crashed')
               => CallsFor(k) = {}
    ]_vars

(***************************************************************************)
(* C23: when a local document is created or changed for a group whose      *)
(* override flag is false or whose global entry is absent, the local spec  *)
(* is stored in the entry of the group and nothing else changes: the       *)
(* ConfigStore is as before, and processRoutes is not called, neither for  *)
(* a teardown nor for a rebuild.                                           *)
(***************************************************************************)
\* the step handles a local document, created or changed, of a group that
\* may not be overridden or that has no global spec
LocalNotApplied ==
  /\ Handled("ConfigMap", Head(queue).event)
  /\ Head(queue).event # "Delete"
  /\ ~Head(queue).rsc.global
  /\ Head(queue).rsc.valid
  /\ Head(queue).rsc.entries # <<>>
  /\ LET ns == Head(queue).rsc.entries[1].namespace
     IN  /\ ns = Head(queue).rsc.ns
         /\ ns \in DOMAIN invertedNamespaceLabelMap
         /\ \/ ns \notin DOMAIN extdSpecMap
            \/ ~extdSpecMap[ns].override
            \/ extdSpecMap[ns].global.nil

\* the extended-spec map with the local spec of the document stored
LocalSpecStored ==
  LET ergc == Head(queue).rsc.entries[1]
      ns == ergc.namespace
  IN  IF ns \in DOMAIN extdSpecMap
      THEN [extdSpecMap EXCEPT ![ns].local = ergc.spec]
      ELSE MapPut(extdSpecMap, ns,
                  [override |-> FALSE, local |-> ergc.spec, global |-> NilSpec,
                   namespaces |-> <<>>, partition |-> ""])

C23_LocalStoredOnly ==
  [][ LocalNotApplied =>
        /\ extdSpecMap' = LocalSpecStored
        /\ ltmConfig' = ltmConfig
        /\ calls' = <<>>
        /\ invertedNamespaceLabelMap' = invertedNamespaceLabelMap
        /\ baseRouteConfig' = baseRouteConfig
        /\ processedHostPathMap' = processedHostPathMap
        /\ processedNativeResources' = processedNativeResources
    ]_vars

\* the local document of ns2, which may not be overridden, was handled
\* while ns2 had a virtual server: its spec is stored and the virtual
\* server stands as built from the global spec
C23_Witness ==
  /\ outcome.key.kind = "ConfigMap"
  /\ outcome.key.event # "Delete"
  /\ outcome.result = "Forget"
  /\ ~outcome.key.rsc.global
  /\ outcome.key.rsc.ns = "ns2"
  /\ "ns2" \in DOMAIN extdSpecMap
  /\ ~extdSpecMap["ns2"].override
  /\ ~extdSpecMap["ns2"].global.nil
  /\ extdSpecMap["ns2"].local = outcome.key.rsc.entries[1].spec
  /\ extdSpecMap["ns2"].local.vserverName # extdSpecMap["ns2"].global.vserverName
  /\ calls = <<>>
  /\ UnderName(ltmConfig, extdSpecMap["ns2"].partition, extdSpecMap["ns2"].global) # {}
  /\ UnderName(ltmConfig, extdSpecMap["ns2"].partition, extdSpecMap["ns2"].local) = {}

\* a local document was stored for a namespace that has no entry of the
\* global document
C23_WitnessNoGlobal ==
  /\ outcome.key.kind = "ConfigMap"
  /\ outcome.key.event # "Delete"
  /\ ~outcome.key.rsc.global
  /\ outcome.key.rsc.ns \in DOMAIN extdSpecMap
  /\ extdSpecMap[outcome.key.rsc.ns].global.nil
  /\ extdSpecMap[outcome.key.rsc.ns].local = outcome.key.rsc.entries[1].spec

(***************************************************************************)
(* C24: when a local document is deleted for a group that may be           *)
(* overridden: if another local document is in the same namespace, the one *)
(* of the latest creation time gives the spec of the group, and when that  *)
(* changes the spec the group is rebuilt with it; otherwise the local spec *)
(* is cleared, the virtual servers built from the local spec are removed,  *)
(* and the group is rebuilt from the global spec, which is the effective   *)
(* spec afterwards.                                                        *)
(***************************************************************************)
\* the step handles the deletion of a local document of a group that may
\* be overridden
LocalDeleted ==
  /\ Handled("ConfigMap", "Delete")
  /\ ~Head(queue).rsc.global
  /\ Head(queue).rsc.valid
  /\ Head(queue).rsc.entries # <<>>
  /\ LET ns == Head(queue).rsc.entries[1].namespace
     IN  /\ ns = Head(queue).rsc.ns
         /\ ns \in DOMAIN invertedNamespaceLabelMap
         /\ ns \in DOMAIN extdSpecMap
         /\ extdSpecMap[ns].override
         /\ ~extdSpecMap[ns].global.nil

\* the local documents the informer of the namespace still holds
RemainingLocal(ns) ==
  { cm \in MapValues(cmCache) : ~cm.global /\ cm.ns = ns /\ cm.ns \in nrInformers }

\* the remaining documents of the latest creation time
LatestLocal(ns) ==
  { cm \in RemainingLocal(ns) : \A c \in RemainingLocal(ns) : c.ts <= cm.ts }

\* the latest remaining document gives the effective spec, and the group
\* was rebuilt with it when the spec changed
LatestTakesOver(ns) ==
  \E cm \in LatestLocal(ns) :
    /\ getExtendedRouteSpec(extdSpecMap', ns).spec = cm.entries[1].spec
    /\ getExtendedRouteSpec(extdSpecMap, ns).spec # cm.entries[1].spec =>
         /\ extdSpecMap'[ns].local = cm.entries[1].spec
         /\ calls' # <<>>
         /\ calls'[Len(calls')].routeGroup = invertedNamespaceLabelMap[ns]
         /\ ~calls'[Len(calls')].triggerDelete
         /\ calls'[Len(calls')].extdSpec = cm.entries[1].spec
         /\ ltmConfig' = calls'[Len(calls')].post
         /\ getExtendedRouteSpec(extdSpecMap, ns).spec.vserverName
              # cm.entries[1].spec.vserverName =>
              /\ Len(calls') = 2
              /\ calls'[1].triggerDelete
              /\ UnderName(calls'[1].post, extdSpecMap[ns].partition,
                           getExtendedRouteSpec(extdSpecMap, ns).spec) = {}

\* the group falls back to its global spec
FallsBackToGlobal(ns) ==
  LET prev == getExtendedRouteSpec(extdSpecMap, ns)
  IN  /\ extdSpecMap'[ns].local.nil
      /\ getExtendedRouteSpec(extdSpecMap', ns).spec = extdSpecMap[ns].global
      /\ Len(calls') = 2
      /\ calls'[1].triggerDelete
      /\ calls'[1].extdSpec = prev.spec
      /\ UnderName(calls'[1].post, prev.partition, prev.spec) = {}
      /\ ~calls'[2].triggerDelete
      /\ calls'[2].pre = calls'[1].post
      /\ calls'[2].extdSpec = extdSpecMap[ns].global
      /\ ltmConfig' = calls'[2].post
      /\ UnderName(ltmConfig', prev.partition, prev.spec) \subseteq calls'[2].committed

C24_WitnessLatest ==
  /\ outcome.key.kind = "ConfigMap"
  /\ outcome.key.event = "Delete"
  /\ ~outcome.key.rsc.global
  /\ outcome.result = "Forget"
  /\ Cardinality(RemainingLocal("ns1")) = 2
  /\ \E cm \in LatestLocal("ns1") :
       /\ extdSpecMap["ns1"].local = cm.entries[1].spec
       /\ calls # <<>>
       /\ calls[Len(calls)].extdSpec = cm.entries[1].spec
       /\ calls[Len(calls)].committed # {}

(***************************************************************************)
(* C25: getOrderedRoutes returns all routes of the namespace sorted by     *)
(* host ascending; two routes of the same host of which one has the root   *)
(* path and the other the empty path are ordered by creation time          *)
(* ascending, and otherwise by path ascending and then by creation time    *)
(* ascending; the comparison is a strict weak order, so the result is the  *)
(* same for every input order of the same routes when no two of them have  *)
(* the same host, creation time and path, the empty path read as the root  *)
(* path.                                                                   *)
(***************************************************************************)
OrderedRoutesReturned == args.fn = "getOrderedRoutes" /\ result # <<>>

\* the routes of the namespace in the listing
NamespaceRoutes == { r \in ListedRoutes :
                       /\ r.ns = args.namespace
                       /\ \E i \in 1..Len(args.listing) : args.listing[i] = r }

RootOrEmpty(path) == path = <<>> \/ path = Root

\* the order of the routes of one host as the source makes it
Precedes(x, y) ==
  \/ StrLess(x.host, y.host)
  \/ /\ x.host = y.host
     /\ IF (x.path = <<>> /\ y.path = Root) \/ (x.path = Root /\ y.path = <<>>)
        THEN x.ts < y.ts
        ELSE StrLess(x.path, y.path) \/ (x.path = y.path /\ x.ts < y.ts)

\* the order as stated: by creation time when either path is root or empty
PrecedesAsStated(x, y) ==
  \/ StrLess(x.host, y.host)
  \/ /\ x.host = y.host
     /\ IF RootOrEmpty(x.path) \/ RootOrEmpty(y.path)
        THEN x.ts < y.ts
        ELSE StrLess(x.path, y.path) \/ (x.path = y.path /\ x.ts < y.ts)

\* the result holds the routes of the namespace, each once
AllReturned(out) ==
  /\ Len(out) = Cardinality(NamespaceRoutes)
  /\ { out[i] : i \in 1..Len(out) } = NamespaceRoutes

SortedBy(out, Less(_, _)) ==
  \A i, j \in 1..Len(out) : i < j => ~Less(out[j], out[i])

StrictWeakOrder(S, Less(_, _)) ==
  /\ \A x \in S : ~Less(x, x)
  /\ \A x, y, z \in S : (Less(x, y) /\ Less(y, z)) => Less(x, z)
  /\ \A x, y, z \in S :
       (~Less(x, y) /\ ~Less(y, x) /\ ~Less(y, z) /\ ~Less(z, y))
         => (~Less(x, z) /\ ~Less(z, x))

\* every input order of the same routes gives the result
SameForEveryOrder(out) ==
  \A l \in Listings({ args.listing[i] : i \in 1..Len(args.listing) }) :
    getOrderedRoutes(l, args.namespace) = out

NormalPath(r) == IF r.path = <<>> THEN Root ELSE r.path

C25_OrderedRoutes ==
  OrderedRoutesReturned =>
    /\ AllReturned(result[1])
    /\ SortedBy(result[1], Precedes)
    /\ StrictWeakOrder(NamespaceRoutes, RouteLess)
    /\ (\A x, y \in NamespaceRoutes :
          (x # y) => <<x.host, NormalPath(x), x.ts>> # <<y.host, NormalPath(y), y.ts>>)
         => SameForEveryOrder(result[1])

\* as stated: by creation time when either path is root or empty, and one
\* result for routes of distinct host, path and creation time
C25_OrderedRoutesAsStated ==
  OrderedRoutesReturned =>
    /\ AllReturned(result[1])
    /\ SortedBy(result[1], PrecedesAsStated)
    /\ StrictWeakOrder(NamespaceRoutes, RouteLess)
    /\ (\A x, y \in NamespaceRoutes :
          (x # y) => <<x.host, x.path, x.ts>> # <<y.host, y.path, y.ts>>)
         => SameForEveryOrder(result[1])

\* three routes of one host with the empty path, the root path and another
\* path were listed in another order than the sorted one
C25_Witness ==
  /\ OrderedRoutesReturned
  /\ Len(result[1]) = 3
  /\ result[1] # args.listing
  /\ result[1][1].path = Root
  /\ result[1][2].path = <<>>
  /\ result[1][1].ts < result[1][2].ts
  /\ result[1][3].path = Path_x
  /\ result[1][3].ts < result[1][2].ts

(***************************************************************************)
(* C26: when the host or the path of an admitted route changes, so that    *)
(* its claim key changes, and the route is accepted again, the claim map   *)
(* holds the new key with the creation timestamp of the route and no       *)
(* longer holds the claim of the route on the old key: the old key is free *)
(* for a newer route, or it is held by another route that was accepted     *)
(* with it in the same processRoutes call.                                 *)
(***************************************************************************)
\* the step handles the update of a route and accepts the route
RouteAcceptedAgain ==
  /\ Handled("Route", "Update")
  /\ \E i \in 1..Len(calls') :
       /\ ~calls'[i].triggerDelete
       /\ \E n \in 1..Len(calls'[i].accepted) : calls'[i].accepted[n] = Head(queue).rsc

\* the keys the route held before under its creation timestamp
OldKeys(route) ==
  { k \in DOMAIN processedHostPathMap :
      processedHostPathMap[k] = route.ts /\ k # HostPathKey(route) }

\* the routes that are newer than route and ask for the key
NewerRoutes(route, key) ==
  { v \in RouteVersions : v.ts > route.ts /\ HostPathKey(v) = key }

\* no newer route is refused the key as already claimed
FreeForNewer(route, k) ==
  /\ k \notin DOMAIN processedHostPathMap'
  /\ \A v \in NewerRoutes(route, k) :
       checkValidRoute(v, getExtendedRouteSpec(extdSpecMap', v.ns).spec,
                       processedHostPathMap') # "HostAlreadyClaimed"

\* another route was accepted with the key in the step and holds it
TakenByAnother(route, k) ==
  /\ k \in DOMAIN processedHostPathMap'
  /\ \E i \in 1..Len(calls') : \E n \in 1..Len(calls'[i].accepted) :
       /\ calls'[i].accepted[n].name # route.name
       /\ HostPathKey(calls'[i].accepted[n]) = k
       /\ calls'[i].accepted[n].ts = processedHostPathMap'[k]

NewKeyClaimed(route) ==
  /\ HostPathKey(route) \in DOMAIN processedHostPathMap'
  /\ processedHostPathMap'[HostPathKey(route)] = route.ts

ServesHTTP(r) == r.tls = "" \/ r.insecure \in {"Allow", "Redirect"}

TLSOnly(r) == r.tls # "" /\ r.insecure \in {"", "None"}

HTTPName(c) == frameRouteVSName(c.extdSpec.vserverName, c.extdSpec.vserverAddr, HTTP)

HTTPStored(c, ltm) ==
  c.partition \in DOMAIN ltm /\ HTTPName(c) \in DOMAIN ltm[c.partition]

SuccessfulBuild(c) ==
  ~c.triggerDelete /\ ~c.err /\ ~c.processingError /\ c.accepted # <<>>

RuleNameOf(r) == formatVirtualServerRuleName(r.host, r.ns, r.path, PoolOf(r))

OnlyOfHTTPRoutes(c, cfg) ==
  /\ \A i \in 1..Len(cfg.pools) :
       cfg.pools[i].name \in {PoolOf(r) : r \in {a \in AcceptedRoutes(c) : ServesHTTP(a)}}
  /\ RuleNames(cfg) \subseteq
       {RuleNameOf(r) : r \in {a \in AcceptedRoutes(c) : ServesHTTP(a)}}
  /\ \A r \in {a \in AcceptedRoutes(c) : TLSOnly(a)} :
       RuleNameOf(r) \notin RuleNames(cfg)

C27_HTTPConfigIffHTTPTraffic ==
  ~crashed =>
    \A i \in 1..Len(calls) :
      SuccessfulBuild(calls[i]) =>
        /\ HTTPStored(calls[i], calls[i].post)
             <=> (\E r \in AcceptedRoutes(calls[i]) : ServesHTTP(r))
        /\ HTTPStored(calls[i], calls[i].post) =>
             OnlyOfHTTPRoutes(calls[i], calls[i].post[calls[i].partition][HTTPName(calls[i])])

\* the HTTP config of the group was stored and no accepted route serves
\* HTTP traffic any more: the config is gone
C27_Witness ==
  /\ ~crashed
  /\ \E i \in 1..Len(calls) :
       /\ SuccessfulBuild(calls[i])
       /\ HTTPStored(calls[i], calls[i].pre)
       /\ ~HTTPStored(calls[i], calls[i].post)
       /\ \A r \in AcceptedRoutes(calls[i]) : TLSOnly(r)

\* a TLS route of insecure policy None is built next to a route that serves
\* HTTP traffic
C27_WitnessMixed ==
  /\ ~crashed
  /\ \E i \in 1..Len(calls) :
       /\ SuccessfulBuild(calls[i])
       /\ HTTPStored(calls[i], calls[i].post)
       /\ \E r \in AcceptedRoutes(calls[i]) : TLSOnly(r) /\ r.tls = "edge"
       /\ \E r \in AcceptedRoutes(calls[i]) : ServesHTTP(r) /\ PoolOf(r) = PoolOf(calls[i].accepted[1])
       /\ Len(calls[i].accepted) = 2

(***************************************************************************)
(* C28: after any sequence of AddRules calls on a policy the rule names    *)
(* are unique within the policy and the rules are sorted by ordinal; a     *)
(* rule whose name exists in the policy adds no rule, and its host value   *)
(* is merged into the host condition of the existing rule as a set union,  *)
(* so that the list of host values holds no duplicate; the rules of new    *)
(* names are appended.                                                     *)
(***************************************************************************)
AddRulesReturned == args.fn = "AddRules" /\ result # <<>>

NamesOf(rules) == {rules[i].name : i \in 1..Len(rules)}

Named(rules, name) == {i \in 1..Len(rules) : rules[i].name = name}

UniqueNames(rules) == \A i, j \in 1..Len(rules) : rules[i].name = rules[j].name => i = j

SortedByOrdinal(rules) ==
  \A i, j \in 1..Len(rules) : i < j => rules[i].ordinal <= rules[j].ordinal

HostSet(rule) == {rule.hostValues[i] : i \in 1..Len(rule.hostValues)}

NoDuplicateHost(rule) ==
  \A i, j \in 1..Len(rule.hostValues) : rule.hostValues[i] = rule.hostValues[j] => i = j

\* the rule of the name in the list of rules
RuleNamed(rules, name) == rules[CHOOSE i \in Named(rules, name) : TRUE]

\* the rules of the batch whose name is in the policy, and the others
Existing(pol, rls) == {i \in 1..Len(rls) : rls[i].name \in NamesOf(pol.rules)}

\* the host value of the rule of the batch is among those of the rule of
\* its name, which keeps the values it had and has no other
HostMerged(pol, rls, i, after) ==
  /\ Cardinality(Named(after.rules, rls[i].name)) = 1
  /\ HostSet(RuleNamed(after.rules, rls[i].name))
       = HostSet(RuleNamed(pol.rules, rls[i].name)) \cup {rls[i].hostValues[1]}

\* the rule of a new name is in the policy as it was handed over
Appended(pol, rls, i, after) ==
  \E k \in 1..Len(after.rules) : after.rules[k] = rls[i]

AddRulesMerges(pol, rls, after) ==
  /\ UniqueNames(after.rules)
  /\ SortedByOrdinal(after.rules)
  /\ Len(after.rules) = Len(pol.rules) + Len(rls) - Cardinality(Existing(pol, rls))
  /\ \A i \in Existing(pol, rls) : HostMerged(pol, rls, i, after)
  /\ \A i \in (1..Len(rls)) \ Existing(pol, rls) : Appended(pol, rls, i, after)

C28_AddRulesUnion ==
  AddRulesReturned =>
    /\ AddRulesMerges(args.pol, args.rls, result[1])
    /\ \A k \in 1..Len(result[1].rules) : NoDuplicateHost(result[1].rules[k])

\* all of it but the absence of duplicates
C28_AddRulesMergesHosts ==
  AddRulesReturned => AddRulesMerges(args.pol, args.rls, result[1])

\* a host value was merged into a rule that had another one
C28_WitnessUnion ==
  /\ AddRulesReturned
  /\ Existing(args.pol, args.rls) # {}
  /\ \E k \in 1..Len(result[1].rules) : Cardinality(HostSet(result[1].rules[k])) = 2

(***************************************************************************)
(* C29: for edge and reencrypt termination on the HTTPS virtual server,    *)
(* handleTLS reports failure whenever the TLS material cannot be resolved  *)
(* (a referenced secret is missing, the reference kind is none of bigip,   *)
(* secret and certificate, or the client credential, and for reencrypt the *)
(* server credential, is missing), and it reports success only when a      *)
(* client profile is bound.                                                *)
(***************************************************************************)
HandleTLSReturned ==
  /\ args.fn = "handleTLS"
  /\ result # <<>>
  /\ args.rsCfg.port = args.tlsContext.httpsPort
  /\ args.tlsContext.termination \in {"edge", "reencrypt"}

KnownSecrets(secrets) == DOMAIN secrets.sslContext \cup DOMAIN secrets.cluster

SecretMissing(ctx, secrets) ==
  /\ ctx.referenceType = "secret"
  /\ \/ ctx.clientSSL # "" /\ ctx.clientSSL \notin KnownSecrets(secrets)
     \/ ctx.serverSSL # "" /\ ctx.serverSSL \notin KnownSecrets(secrets)

UnknownReference(ctx) == ctx.referenceType \notin {"bigip", "secret", "certificate"}

ClientCredentialMissing(ctx) ==
  \/ ctx.referenceType \in {"bigip", "secret"} /\ ctx.clientSSL = ""
  \/ ctx.referenceType = "certificate" /\ ~ctx.hasKeyCert

ServerCredentialMissing(ctx) ==
  /\ ctx.termination = "reencrypt"
  /\ \/ ctx.referenceType \in {"bigip", "secret"} /\ ctx.serverSSL = ""
     \/ ctx.referenceType = "certificate" /\ ~ctx.destCA

ClientProfileBound(cfg) ==
  \E p \in cfg.customProfiles : p[Len(p)] = "clientside"

C29_UnresolvedTLSFails ==
  HandleTLSReturned =>
    /\ (\/ SecretMissing(args.tlsContext, args.secrets)
        \/ UnknownReference(args.tlsContext)
        \/ ClientCredentialMissing(args.tlsContext)
        \/ ServerCredentialMissing(args.tlsContext)) => ~result[1].ok
    /\ result[1].ok => ClientProfileBound(result[1].cfg)

\* a missing secret and an unknown reference kind are reported
C29_MissingSecretFails ==
  (/\ HandleTLSReturned
   /\ SecretMissing(args.tlsContext, args.secrets) \/ UnknownReference(args.tlsContext))
    => ~result[1].ok

\* edge termination succeeds with the client profile of a secret bound
C29_WitnessBound ==
  /\ HandleTLSReturned
  /\ args.tlsContext.referenceType = "secret"
  /\ result[1].ok
  /\ ClientProfileBound(result[1].cfg)

(***************************************************************************)
(* C30: the snapshot operations of the store return a map with exactly the *)
(* keys and values of the current LTM and DNS configuration and change     *)
(* neither the store nor the last-applied cache, so the DNS part of the    *)
(* request handed to the agent equals the current DNS configuration.       *)
(***************************************************************************)
\* the request postResourceConfigRequest would hand to the agent now
RequestNow ==
  postResourceConfigRequest(ltmConfig, ltmConfigCache, dnsConfig, dnsConfigCache, initState)

LTMSnapshotExact ==
  /\ DOMAIN getLTMConfigCopy(ltmConfig) = DOMAIN ltmConfig
  /\ \A prtn \in DOMAIN ltmConfig : getLTMConfigCopy(ltmConfig)[prtn] = ltmConfig[prtn]

DNSSnapshotExact ==
  /\ DOMAIN getGTMConfigCopy(dnsConfig, dnsConfigCache).copy = DOMAIN dnsConfig
  /\ \A d \in DOMAIN dnsConfig :
       getGTMConfigCopy(dnsConfig, dnsConfigCache).copy[d] = dnsConfig[d]

CacheUntouched == getGTMConfigCopy(dnsConfig, dnsConfigCache).cache = dnsConfigCache

C30_SnapshotsEqualStore ==
  /\ LTMSnapshotExact
  /\ DNSSnapshotExact
  /\ CacheUntouched
  /\ RequestNow.published => RequestNow.request.gtmConfig = dnsConfig

\* the LTM part: the snapshot and the request hold the store's virtual
\* servers
C30_LTMSnapshotEqualsStore ==
  /\ LTMSnapshotExact
  /\ RequestNow.published => RequestNow.request.ltmConfig = ltmConfig

\* a request is due while the store holds virtual servers and wide IPs
C30_WitnessRequest ==
  /\ RequestNow.published
  /\ dnsConfig # EmptyMap
  /\ \E prtn \in DOMAIN ltmConfig : ltmConfig[prtn] # EmptyMap

(***************************************************************************)
(* C31: for every cached map and every revision of the global document     *)
(* that is no deletion, the four lists getOperationalExtendedConfigMapSpecs *)
(* returns hold no group key twice, in one list or in two: a group is at   *)
(* most one of deleted, modified, updated and created, also when its       *)
(* global spec is flagged as depending on the TLS cipher configuration.    *)
(***************************************************************************)
\* the new map a revision parses to
ParsedMap(cm) ==
  ParseGlobal(cm.entries, DefaultPartition,
              [map |-> EmptyMap, inv |-> invertedNamespaceLabelMap, err |-> FALSE]).map

\* the four lists for the cached map and the revision, in one order of the
\* keys
DeltaLists(cm) ==
  getOperationalExtendedConfigMapSpecs(
    extdSpecMap, ParsedMap(cm), FALSE,
    CHOOSE o \in Listings(DOMAIN extdSpecMap \cup DOMAIN ParsedMap(cm)) : TRUE)

Classified(ops) == ops.deleted \o ops.modified \o ops.updated \o ops.created

NoKeyTwice(keys) == \A i, j \in 1..Len(keys) : keys[i] = keys[j] => i = j

Revisions == { cm \in GlobalVersions : ~FailsValidation(cm) }

C31_DeltaListsDisjoint ==
  \A cm \in Revisions :
    ~DeltaLists(cm).panic => NoKeyTwice(Classified(DeltaLists(cm)))

(***************************************************************************)
(* C32: the handling of a revision of the global document, a deletion of   *)
(* the document included, runs to completion for every extended-spec map   *)
(* the controller can have, also when the map holds entries with a local   *)
(* spec only: it reads no global spec that is absent and no entry that is  *)
(* missing from the cached or the new map, so the worker does not crash.   *)
(***************************************************************************)
C32_GlobalRevisionCompletes ==
  [][GlobalHandled => ~crashed']_vars

\* the same for the cached maps whose entries all have a global spec, and
\* revisions that are no deletion
C32_CompletesWithGlobalSpecs ==
  [][(/\ GlobalHandled
      /\ Head(queue).event # "Delete"
      /\ \A k \in DOMAIN extdSpecMap : ~extdSpecMap[k].global.nil) => ~crashed']_vars

(***************************************************************************)
(* C33: a Service or Endpoints event changes only pool members.  After     *)
(* updatePoolMembersForRoutes every virtual server config of the group     *)
(* keeps the monitors, iRules, internal datagroups, custom profiles, pools *)
(* and policies it had before; pool members are outside this model, so an  *)
(* event changes no pool member and ConfigStore stays equal to the         *)
(* snapshot it was equal to.                                               *)
(***************************************************************************)
PoolMembersRefreshed ==
  /\ WorkerTurn
  /\ ~initState
  /\ Head(queue).kind \in {"Service", "Endpoints"}

KeepsVirtualPoolsPolicies(old, new) ==
  /\ new.pools = old.pools
  /\ new.policies = old.policies
  /\ new.iRules = old.iRules
  /\ new.baseResources = old.baseResources
  /\ new.hosts = old.hosts

KeepsResources(old, new) ==
  /\ KeepsVirtualPoolsPolicies(old, new)
  /\ new.monitors = old.monitors
  /\ new.iRulesMap = old.iRulesMap
  /\ new.intDgMap = old.intDgMap
  /\ new.customProfiles = old.customProfiles

SameVirtualServers ==
  {[partition |-> vs.partition, name |-> vs.name] : vs \in VirtualServers(ltmConfig')}
    = {[partition |-> vs.partition, name |-> vs.name] : vs \in VirtualServers(ltmConfig)}

C33_OnlyPoolMembersChange ==
  [][PoolMembersRefreshed =>
       /\ SameVirtualServers
       /\ \A vs \in VirtualServers(ltmConfig) :
            KeepsResources(vs.cfg, ltmConfig'[vs.partition][vs.name])
       /\ ltmConfig = ltmConfigCache => ltmConfig' = ltmConfigCache]_vars

\* what the copy does keep: the virtual, the pools and the policies
C33_CopyKeepsVirtualPoolsPolicies ==
  [][PoolMembersRefreshed =>
       /\ SameVirtualServers
       /\ \A vs \in VirtualServers(ltmConfig) :
            KeepsVirtualPoolsPolicies(vs.cfg, ltmConfig'[vs.partition][vs.name])]_vars

(***************************************************************************)
(* C34: after a successful processRoutes for a group, an HTTPS virtual     *)
(* server config of the group's identity is in ConfigStore only if an      *)
(* accepted route of the group is TLS-secured; the config built earlier is *)
(* removed when the last TLS route is deleted or becomes insecure while    *)
(* insecure routes remain.                                                 *)
(***************************************************************************)
HTTPSName(c) == frameRouteVSName(c.extdSpec.vserverName, c.extdSpec.vserverAddr, HTTPS)

HTTPSStored(c, ltm) ==
  c.partition \in DOMAIN ltm /\ HTTPSName(c) \in DOMAIN ltm[c.partition]

C34_HTTPSConfigOnlyWithTLSRoute ==
  ~crashed =>
    \A i \in 1..Len(calls) :
      (SuccessfulBuild(calls[i]) /\ HTTPSStored(calls[i], calls[i].post))
        => \E r \in AcceptedRoutes(calls[i]) : isSecureRoute(r)

\* an HTTPS config is stored by a build only for a group with a TLS route
C34_HTTPSConfigBuiltForTLSRoute ==
  ~crashed =>
    \A i \in 1..Len(calls) :
      (SuccessfulBuild(calls[i]) /\ HTTPSName(calls[i]) \in calls[i].committed)
        => \E r \in AcceptedRoutes(calls[i]) : isSecureRoute(r)

(***************************************************************************)
(* C35: outside the bulk load, every route-built virtual server in         *)
(* ConfigStore has the partition and the name derived from the current     *)
(* effective spec of some group; a change of the virtual-server address of *)
(* a group whose name is derived from the address leaves no virtual server *)
(* under the name derived from the old address.                            *)
(***************************************************************************)
DerivedFromGroup(vs, k) ==
  /\ ~getExtendedRouteSpec(extdSpecMap, k).spec.nil
  /\ vs.partition = getExtendedRouteSpec(extdSpecMap, k).partition
  /\ \E portStruct \in {HTTP, HTTPS} :
       vs.name = frameRouteVSName(getExtendedRouteSpec(extdSpecMap, k).spec.vserverName,
                                  getExtendedRouteSpec(extdSpecMap, k).spec.vserverAddr,
                                  portStruct)

C35_VirtualServersOfCurrentSpecs ==
  (~initState /\ ~crashed) =>
    \A vs \in VirtualServers(ltmConfig) :
      \E k \in DOMAIN extdSpecMap : DerivedFromGroup(vs, k)

(***************************************************************************)
(* C36: the bulk-load phase always ends.  For every initial service count, *)
(* zero included, with the pre-existing Service events delivered, the      *)
(* controller eventually leaves the phase, and a Route or ConfigMap key    *)
(* re-enqueued during the phase is eventually dispatched to its handler.   *)
(***************************************************************************)
Dispatched == ~initState /\ outcome.key.kind \in GatedKinds /\ outcome.result # ""

C36_BulkLoadEnds ==
  /\ <>(~initState \/ crashed)
  /\ (initState /\ delayed # {}) ~> (Dispatched \/ crashed)

\* with a pre-existing service the phase ends
C36_BulkLoadEndsWithServices ==
  /\ initialSvcCount > 0 => <>(~initState \/ crashed)
  /\ initialSvcCount > 0 => ((initState /\ delayed # {}) ~> (Dispatched \/ crashed))

(***************************************************************************)
(* C37: checkValidRoute returns accept or reject for every route and every *)
(* effective spec and reads no absent TLS block; a route without a TLS     *)
(* block in a group whose spec uses the bigip TLS reference is validated   *)
(* to an outcome.                                                          *)
(***************************************************************************)
CheckValidRouteReturned == args.fn = "checkValidRoute" /\ result # <<>>

Verdicts == {"ok", "HostAlreadyClaimed", "ExtendedValidationFailed", "ServiceNotFound"}

C37_ValidatedToVerdict == CheckValidRouteReturned => result[1] \in Verdicts

\* a route with a TLS block, or a spec without the bigip reference, or a
\* key claimed by an older route, is validated to a verdict
BigIPReference == args.extdSpec.tls.reference = "bigip"

ClaimedByOlder ==
  HostPathKey(args.route) \in DOMAIN args.hp
    /\ args.hp[HostPathKey(args.route)] < args.route.ts

C37_ValidatedWithTLSBlock ==
  (CheckValidRouteReturned /\ (args.route.tls # "" \/ ~BigIPReference \/ ClaimedByOlder))
    => result[1] \in Verdicts

(***************************************************************************)
(* C38: a route is recorded in the processed-resources set only if a       *)
(* virtual server config containing it has been committed to ConfigStore;  *)
(* a route of a group whose build failed is not recorded, so a later       *)
(* Create event for it is not skipped as already processed.                *)
(***************************************************************************)
Committed(ltm, ref) ==
  \E vs \in VirtualServers(ltm) : ref \in vs.cfg.baseResources

C38_RecordedOnlyWhenCommitted ==
  [][\A ref \in processedNativeResources' \ processedNativeResources :
       Committed(ltmConfig', ref)]_vars

\* a route recorded by a build without a processing error is committed
C38_RecordedByGoodBuildCommitted ==
  [][(\A i \in 1..Len(calls') : ~calls'[i].processingError) =>
       \A ref \in processedNativeResources' \ processedNativeResources :
         Committed(ltmConfig', ref)]_vars

(***************************************************************************)
(* C39: every key taken from the work queue, on every path through         *)
(* processNativeResource, is marked done once and gets exactly one of the  *)
(* two outcomes, added back rate limited or forgotten; the worker loop     *)
(* stops only when the queue reports shutdown.                             *)
(***************************************************************************)
Settled ==
  /\ outcome'.key = Head(queue)
  /\ \/ outcome'.result = "AddRateLimited" /\ Head(queue) \in delayed'
     \/ outcome'.result = "Forget" /\ delayed' = delayed

C39_EveryKeySettled == [][WorkerTurn => (Settled /\ ~crashed')]_vars

\* a key whose handler returns is settled
C39_ReturnedKeySettled == [][(WorkerTurn /\ ~crashed') => Settled]_vars

(***************************************************************************)
(* C40: recording the claim of an accepted route never removes the claim   *)
(* of a different live route.  After getGroupedRoutes has resolved a       *)
(* group, the claim key of every admitted route is in the claim map with   *)
(* the creation timestamp of the route, also when two admitted routes with *)
(* different keys have equal creation timestamps.                          *)
(***************************************************************************)
GroupedRoutesReturned == args.fn = "getGroupedRoutes" /\ result # <<>>

Admitted(g) == {g.routes[i] : i \in 1..Len(g.routes)}

ClaimHeld(hp, route) ==
  HostPathKey(route) \in DOMAIN hp /\ hp[HostPathKey(route)] = route.ts

C40_AdmittedRoutesHoldClaims ==
  GroupedRoutesReturned => \A a \in Admitted(result[1]) : ClaimHeld(result[1].hp, a)

\* the admitted routes of a creation timestamp that no admitted route of
\* another key shares hold their claims
SharesTimestamp(g, a) ==
  \E b \in Admitted(g) : b.ts = a.ts /\ HostPathKey(b) # HostPathKey(a)

C40_ClaimsHeldForOwnTimestamps ==
  GroupedRoutesReturned =>
    \A a \in Admitted(result[1]) :
      ~SharesTimestamp(result[1], a) => ClaimHeld(result[1].hp, a)

====
